---------------------------- MODULE Spec2Model ----------------------------
(***************************************************************************)
(* A state-machine model of the task-management backend                    *)
(* (src/backend/server.js) over the relational store it runs on            *)
(* (src/backend/db.sql).                                                   *)
(*                                                                         *)
(* Every async route handler is one process: it runs from one `await` to   *)
(* the next as an atomic step, so the storage queries of concurrent        *)
(* requests interleave exactly where the handler's awaits allow it.  A     *)
(* step "X" of a handler stands for: the store executes the query the      *)
(* handler is waiting on, and the handler runs on to its next await.       *)
(***************************************************************************)
EXTENDS Integers, Sequences, FiniteSets, TLC

(* ------------------------------ bounds --------------------------------- *)

\* Requests served in one behaviour (each slot serves one request).
MaxReq == 2

\* Realtime connections attempted in one behaviour.
MaxConn == 2

\* The clock runs 1..MaxTime, in days.
MaxTime == 3

ReqIds == 1..MaxReq
ConnIds == 1..MaxConn

(* --------------------------- program constants ------------------------- *)

\* jwt.sign(..., { expiresIn: "1d" }), in days.
ExpiresIn == 1

\* The time stamp of the seeded rows: before the server starts.
SeedTime == 0

\* LIMIT 5 of the dashboard's deadline query.
DeadlineLimit == 5

VARIABLES
  users,           \* table users:          user_id -> row
  projects,        \* table projects:       project_id -> row
  tasks,           \* table tasks:          task_id -> row
  subtasks,        \* table subtasks:       subtask_id -> row
  task_comments,   \* table task_comments:  comment_id -> row
  task_assignees,  \* table task_assignees: record_id -> row
  task_labels,     \* table task_labels:    record_id -> row
  notifications,   \* table notifications:  notification_id -> row
  reqs,            \* the HTTP requests: slot -> request, with the handler's position
  sockets,         \* the realtime connections: slot -> connection
  emitted,         \* every envelope io.emit was called with, in order
  now,             \* the clock
  store,           \* the browser's zustand store (useAppStore)
  client           \* the browser's runtime: the sockets init_realtime made, and the
                   \* token App's effect last ran for

tables == <<users, projects, tasks, subtasks, task_comments, task_assignees,
            task_labels, notifications>>
vars == <<users, projects, tasks, subtasks, task_comments, task_assignees,
          task_labels, notifications, reqs, sockets, emitted, now, store, client>>

\* What the server holds.
server == <<tables, reqs, sockets, emitted, now>>

(* ------------------------------ JS values ------------------------------ *)

\* A JS object is a function from its keys; a key not in the domain reads undefined.
Has(o, k) == k \in DOMAIN o

\* SQL NULL, JSON null, and `x || null`.
Null == "NULL"

\* !o.k is false: the key is there and its (string) value is neither "" nor null.
Truthy(o, k) == Has(o, k) /\ o[k] # "" /\ o[k] # Null

OrNull(o, k) == IF Truthy(o, k) THEN o[k] ELSE Null

\* The empty object.
Empty == <<>>

\* The n-th uuidv4() of the request in slot r: fresh, as no slot serves two requests.
uuidv4(r, n) == "uuid-" \o ToString(r) \o "-" \o ToString(n)

(* ------------------------------ the store ------------------------------ *)

SeedUsers ==
  [ user1 |-> [user_id |-> "user1", name |-> "Alice Johnson", email |-> "alice@example.com",
               password_hash |-> "hashed_password_alice", profile_picture |-> "alice.png",
               user_role |-> "user", created_at |-> SeedTime, updated_at |-> SeedTime],
    user2 |-> [user_id |-> "user2", name |-> "Bob Smith", email |-> "bob@example.com",
               password_hash |-> "hashed_password_bob", profile_picture |-> "bob.png",
               user_role |-> "manager", created_at |-> SeedTime, updated_at |-> SeedTime],
    user3 |-> [user_id |-> "user3", name |-> "Cindy Lee", email |-> "cindy@example.com",
               password_hash |-> "hashed_password_cindy", profile_picture |-> "cindy.png",
               user_role |-> "user", created_at |-> SeedTime, updated_at |-> SeedTime] ]

SeedProjects ==
  [ project1 |-> [project_id |-> "project1", title |-> "Website Redesign",
                  description |-> "Revamp the company website", due_date |-> "2023-11-30",
                  creator_id |-> "user2", created_at |-> SeedTime, updated_at |-> SeedTime] ]

SeedTasks ==
  [ task1 |-> [task_id |-> "task1", title |-> "Create wireframes",
               description |-> "Design initial wireframes", due_date |-> "2023-10-15",
               priority |-> "high", status |-> "in_progress", creator_id |-> "user1",
               project_id |-> "project1", created_at |-> SeedTime, updated_at |-> SeedTime],
    task3 |-> [task_id |-> "task3", title |-> "Write unit tests",
               description |-> "Implement tests for new features", due_date |-> "2023-10-20",
               priority |-> "low", status |-> "pending", creator_id |-> "user3",
               project_id |-> Null, created_at |-> SeedTime, updated_at |-> SeedTime] ]

SeedSubtasks ==
  [ subtask1 |-> [subtask_id |-> "subtask1", task_id |-> "task1", title |-> "Sketch layout",
                  is_completed |-> FALSE, created_at |-> SeedTime, updated_at |-> SeedTime] ]

SeedComments ==
  [ comment1 |-> [comment_id |-> "comment1", task_id |-> "task1", user_id |-> "user2",
                  comment_text |-> "Looks good", created_at |-> SeedTime] ]

SeedAssignees ==
  [ ta1 |-> [record_id |-> "ta1", task_id |-> "task1", user_id |-> "user2",
             assigned_at |-> SeedTime],
    ta4 |-> [record_id |-> "ta4", task_id |-> "task3", user_id |-> "user3",
             assigned_at |-> SeedTime] ]

\* Table labels is only read: it keeps its seeded rows.
Labels == {"label1", "label2", "label3", "label4"}

SeedTaskLabels ==
  [ tl1 |-> [record_id |-> "tl1", task_id |-> "task1", label_id |-> "label1"],
    tl4 |-> [record_id |-> "tl4", task_id |-> "task3", label_id |-> "label3"] ]

SeedNotifications ==
  [ notif1 |-> [notification_id |-> "notif1", user_id |-> "user2",
                notification_type |-> "assignment", task_id |-> "task1",
                message |-> "You have been assigned", is_read |-> FALSE,
                created_at |-> SeedTime],
    notif5 |-> [notification_id |-> "notif5", user_id |-> "user1",
                notification_type |-> "general", task_id |-> Null,
                message |-> "System maintenance", is_read |-> FALSE,
                created_at |-> SeedTime] ]

\* The rows of table t (a function from the primary key), as a set.
Rows(t) == {t[k] : k \in DOMAIN t}

\* INSERT of `row` under primary key k.
Insert(t, k, row) == [x \in DOMAIN t \cup {k} |-> IF x = k THEN row ELSE t[x]]

\* DELETE FROM t WHERE task_id = id.
DeleteWhereTask(t, id) == [x \in {k \in DOMAIN t : t[k].task_id # id} |-> t[x]]

(* -------------------------- bcrypt and jwt ----------------------------- *)

\* bcrypt.hash(password, 10): one-way; no seeded hash is the hash of a password.
BcryptHash(password) == "bcrypt:" \o password

\* bcrypt.compare(password, hash).
BcryptCompare(password, hash) == hash = BcryptHash(password)

\* The payload register and login sign.
Claims(user_id, email, name, user_role) ==
  [user_id |-> user_id, email |-> email, name |-> name, user_role |-> user_role]

\* jwt.sign(payload, JWT_SECRET, { expiresIn: "1d" }) at time t.
JwtSign(payload, t) ==
  [claims |-> payload, iat |-> t, exp |-> t + ExpiresIn, sig |-> "valid"]

\* JwtVerify looking at the signature only.
JwtVerify_NoExpiry(token, t) == token.sig = "valid"

\* jwt.verify(token, JWT_SECRET) at time t: the signature, then exp (t >= exp is expired).
JwtVerify(token, t) == token.sig = "valid" /\ t < token.exp

(* ----------------------------- requests -------------------------------- *)

NoUser == Empty
NoRes == [status |-> 0, message |-> "", data |-> Empty]

\* res.status(s).json({ message, ...data }).
Res(s, message, data) == [status |-> s, message |-> message, data |-> data]

InternalError == Res(500, "Internal server error", Empty)

IdleReq ==
  [kind |-> "idle", pc |-> "idle", hdr |-> <<>>, params |-> Empty, body |-> Empty,
   user |-> NoUser, loc |-> Empty, res |-> NoRes, queries |-> 0, at |-> 0]

\* Slots are taken in order.
Idle(r) ==
  /\ reqs[r].kind = "idle"
  /\ \A q \in ReqIds : q < r => reqs[q].kind # "idle"

Done(r) == reqs[r].pc = "done"

\* The request in slot r arrives.
Arrive(kind, hdr, params, body) ==
  [IdleReq EXCEPT !.kind = kind, !.hdr = hdr, !.params = params, !.body = body,
                  !.at = now]

\* The handler of q responds and ends.
Respond(q, res) == [q EXCEPT !.pc = "done", !.res = res]

\* One storage query of q has run.
Queried(q) == [q EXCEPT !.queries = @ + 1]

\* The Authorization header is a sequence of words: authHeader.split(" ")[1].
SplitToken(hdr) == IF Len(hdr) >= 2 THEN <<hdr[2]>> ELSE <<>>

\* AuthenticateToken decoding the token without verifying it.
AuthenticateToken_Decodes(hdr, t) ==
  LET token == SplitToken(hdr) IN
  IF token = <<>>
    THEN [next |-> FALSE, res |-> Res(401, "Token missing", Empty), user |-> NoUser]
    ELSE [next |-> TRUE, res |-> NoRes, user |-> token[1].claims]

\* authenticateToken: what it answers for a request arriving at time t.
AuthenticateToken(hdr, t) ==
  LET token == SplitToken(hdr) IN
  IF token = <<>>
    THEN [next |-> FALSE, res |-> Res(401, "Token missing", Empty), user |-> NoUser]
    ELSE IF ~JwtVerify(token[1], t)
      THEN [next |-> FALSE, res |-> Res(403, "Invalid token", Empty), user |-> NoUser]
      ELSE [next |-> TRUE, res |-> NoRes, user |-> token[1].claims]

(* ------------------------ POST /api/auth/register ---------------------- *)

RegisterArrive(r, body) ==
  /\ Idle(r)
  /\ LET q == Arrive("register", <<>>, Empty, body) IN
     reqs' = [reqs EXCEPT ![r] =
       IF ~Truthy(body, "name") \/ ~Truthy(body, "email") \/ ~Truthy(body, "password")
         THEN Respond(q, Res(400, "Name, email, and password are required", Empty))
         ELSE [q EXCEPT !.pc = "select"]]
  /\ UNCHANGED <<store, client, tables, sockets, emitted, now>>

\* SELECT * FROM users WHERE email = $1, then bcrypt.hash, uuidv4 and the time stamp.
RegisterSelect(r) ==
  /\ reqs[r].kind = "register" /\ reqs[r].pc = "select"
  /\ LET q == Queried(reqs[r])
         existingUser == {u \in Rows(users) : u.email = q.body.email} IN
     reqs' = [reqs EXCEPT ![r] =
       IF existingUser # {}
         THEN Respond(q, Res(400, "Email already in use", Empty))
         ELSE [q EXCEPT !.pc = "insert",
                        !.loc = [hashedPassword |-> BcryptHash(q.body.password),
                                 user_id |-> uuidv4(r, 1), timestamp |-> now,
                                 user_role |-> "user"]]]
  /\ UNCHANGED <<store, client, tables, sockets, emitted, now>>

\* RegisterRow with the role taken from the request body when it carries one.
RegisterRow_TrustsBody(q) ==
  [user_id |-> q.loc.user_id, name |-> q.body.name, email |-> q.body.email,
   password_hash |-> q.loc.hashedPassword,
   profile_picture |-> OrNull(q.body, "profile_picture"),
   user_role |-> IF Has(q.body, "user_role") THEN q.body.user_role ELSE q.loc.user_role,
   created_at |-> q.loc.timestamp, updated_at |-> q.loc.timestamp]

\* The users row register inserts.
RegisterRow(q) ==
  [user_id |-> q.loc.user_id, name |-> q.body.name, email |-> q.body.email,
   password_hash |-> q.loc.hashedPassword,
   profile_picture |-> OrNull(q.body, "profile_picture"),
   user_role |-> q.loc.user_role, created_at |-> q.loc.timestamp,
   updated_at |-> q.loc.timestamp]

\* users.email is UNIQUE, users.user_id the primary key.
UsersInsertOk(row) ==
  /\ row.user_id \notin DOMAIN users
  /\ \A u \in Rows(users) : u.email # row.email

\* INSERT INTO users, then jwt.sign and the 201 response; a failed INSERT throws.
RegisterInsert(r) ==
  /\ reqs[r].kind = "register" /\ reqs[r].pc = "insert"
  /\ LET q == Queried(reqs[r])
         row == RegisterRow(q) IN
     IF UsersInsertOk(row)
       THEN /\ users' = Insert(users, row.user_id, row)
            /\ reqs' = [reqs EXCEPT ![r] = Respond(q, Res(201, "Registration successful",
                 [token |-> JwtSign(Claims(row.user_id, row.email, row.name, row.user_role), now),
                  user |-> Claims(row.user_id, row.email, row.name, row.user_role)]))]
       ELSE /\ users' = users
            /\ reqs' = [reqs EXCEPT ![r] = Respond(q, InternalError)]
  /\ UNCHANGED <<store, client, projects, tasks, subtasks, task_comments, task_assignees, task_labels,
                 notifications, sockets, emitted, now>>

(* -------------------------- POST /api/auth/login ----------------------- *)

LoginArrive(r, body) ==
  /\ Idle(r)
  /\ LET q == Arrive("login", <<>>, Empty, body) IN
     reqs' = [reqs EXCEPT ![r] =
       IF ~Truthy(body, "email") \/ ~Truthy(body, "password")
         THEN Respond(q, Res(400, "Email and password are required", Empty))
         ELSE [q EXCEPT !.pc = "select"]]
  /\ UNCHANGED <<store, client, tables, sockets, emitted, now>>

\* LoginSelect answering 404 'User not found' for an unknown e-mail.
LoginSelect_Leaky(r) ==
  /\ reqs[r].kind = "login" /\ reqs[r].pc = "select"
  /\ LET q == Queried(reqs[r])
         rows == {u \in Rows(users) : u.email = q.body.email} IN
     reqs' = [reqs EXCEPT ![r] =
       IF rows = {}
         THEN Respond(q, Res(404, "User not found", Empty))
         ELSE [q EXCEPT !.pc = "compare", !.loc = [user |-> CHOOSE u \in rows : TRUE]]]
  /\ UNCHANGED <<store, client, tables, sockets, emitted, now>>

\* SELECT * FROM users WHERE email = $1: result.rows (at most one row, email is UNIQUE).
LoginSelect(r) ==
  /\ reqs[r].kind = "login" /\ reqs[r].pc = "select"
  /\ LET q == Queried(reqs[r])
         rows == {u \in Rows(users) : u.email = q.body.email} IN
     reqs' = [reqs EXCEPT ![r] =
       IF rows = {}
         THEN Respond(q, Res(400, "Invalid credentials", Empty))
         ELSE [q EXCEPT !.pc = "compare", !.loc = [user |-> CHOOSE u \in rows : TRUE]]]
  /\ UNCHANGED <<store, client, tables, sockets, emitted, now>>

\* LoginAnswer signing the e-mail of the request instead of the stored user.
LoginAnswer_SignsRequest(q, t) ==
  LET user == q.loc.user IN
  IF ~BcryptCompare(q.body.password, user.password_hash)
    THEN Res(400, "Invalid credentials", Empty)
    ELSE Res(200, "Login successful",
             [token |-> JwtSign(Claims(user.user_id, q.body.email, "", user.user_role), t),
              user |-> Claims(user.user_id, user.email, user.name, user.user_role)])

\* What login answers once bcrypt.compare has resolved, at time t.
LoginAnswer(q, t) ==
  LET user == q.loc.user IN
  IF ~BcryptCompare(q.body.password, user.password_hash)
    THEN Res(400, "Invalid credentials", Empty)
    ELSE Res(200, "Login successful",
             [token |-> JwtSign(Claims(user.user_id, user.email, user.name, user.user_role), t),
              user |-> Claims(user.user_id, user.email, user.name, user.user_role)])

\* bcrypt.compare resolves; jwt.sign and the response.
LoginCompare(r) ==
  /\ reqs[r].kind = "login" /\ reqs[r].pc = "compare"
  /\ reqs' = [reqs EXCEPT ![r] = Respond(reqs[r], LoginAnswer(reqs[r], now))]
  /\ UNCHANGED <<store, client, tables, sockets, emitted, now>>

(* ---------------------------- realtime -------------------------------- *)

\* socket.handshake.auth.token || socket.handshake.query.token; each is <<>> when
\* absent (or the empty string) and <<token>> otherwise.
HandshakeToken(auth, query) == IF auth # <<>> THEN auth ELSE query

\* HandshakeAdmits asking only for a token to be there.
HandshakeAdmits_Unverified(auth, query, t) == HandshakeToken(auth, query) # <<>>

\* io.use: whether the handshake carrying `auth` and `query` at time t is let through.
HandshakeAdmits(auth, query, t) ==
  LET token == HandshakeToken(auth, query) IN
  IF token = <<>> THEN FALSE ELSE JwtVerify(token[1], t)

\* A socket connects: io.use, then io.on("connection") for an admitted one.
Handshake(c, auth, query) ==
  /\ sockets[c].state = "none"
  /\ \A d \in ConnIds : d < c => sockets[d].state # "none"
  /\ sockets' = [sockets EXCEPT ![c] =
       IF HandshakeAdmits(auth, query, now)
         THEN [@ EXCEPT !.state = "connected", !.auth = auth, !.query = query,
                        !.user = HandshakeToken(auth, query)[1].claims,
                        !.at = now, !.since = Len(emitted)]
         ELSE [@ EXCEPT !.state = "rejected", !.auth = auth, !.query = query,
                        !.at = now]]
  /\ UNCHANGED <<store, client, tables, reqs, emitted, now>>

\* socket.on("disconnect"): the connection leaves the registry.
Disconnect(c) ==
  /\ sockets[c].state = "connected"
  /\ sockets' = [sockets EXCEPT ![c] = [@ EXCEPT !.state = "disconnected",
                                                 !.until = Len(emitted)]]
  /\ UNCHANGED <<store, client, tables, reqs, emitted, now>>

\* The transport of a registered connection fails; the server has not yet noticed
\* and still holds the connection, and what is sent to it is lost.
TransportFails(c) ==
  /\ sockets[c].state = "connected"
  /\ sockets' = [sockets EXCEPT ![c] = [@ EXCEPT !.state = "broken",
                                                 !.until = Len(emitted)]]
  /\ UNCHANGED <<store, client, tables, reqs, emitted, now>>

\* Receivers sending only to the connections of the user whose request emits.
Receivers_CallerOnly(envelope) ==
  {c \in ConnIds : /\ sockets[c].state = "connected"
                   /\ sockets[c].user.user_id = reqs[envelope.by].user.user_id}

\* Receivers verifying the handshake token again at each emit.
Receivers_ValidTokens(envelope) ==
  {c \in ConnIds : /\ sockets[c].state = "connected"
                   /\ HandshakeAdmits(sockets[c].auth, sockets[c].query, now)}

\* The connections io.emit sends to.
Receivers(envelope) == {c \in ConnIds : sockets[c].state = "connected"}

\* IoEmit giving up on all connections when one of them has a failed transport.
IoEmit_AbortsOnFailure(r, event, data) ==
  LET envelope == [event |-> event, data |-> data, by |-> r] IN
  /\ emitted' = Append(emitted, envelope)
  /\ sockets' = [c \in ConnIds |->
       IF c \in Receivers(envelope) /\ ~\E d \in ConnIds : sockets[d].state = "broken"
         THEN [sockets[c] EXCEPT !.observed = Append(@, envelope)]
         ELSE sockets[c]]

\* io.emit(event, { event, data }) by the request in slot r.
IoEmit(r, event, data) ==
  LET envelope == [event |-> event, data |-> data, by |-> r] IN
  /\ emitted' = Append(emitted, envelope)
  /\ sockets' = [c \in ConnIds |->
       IF c \in Receivers(envelope)
         THEN [sockets[c] EXCEPT !.observed = Append(@, envelope)]
         ELSE sockets[c]]

(* ---------------------- GET/PUT /api/users/profile --------------------- *)

\* SELECT user_id, name, email, profile_picture, user_role FROM users WHERE user_id = $1.
ProfileRows(user_id) ==
  { [user_id |-> u.user_id, name |-> u.name, email |-> u.email,
     profile_picture |-> u.profile_picture, user_role |-> u.user_role] :
    u \in {x \in Rows(users) : x.user_id = user_id} }

GetProfileArrive(r, hdr) ==
  /\ Idle(r)
  /\ LET a == AuthenticateToken(hdr, now)
         q == Arrive("get_profile", hdr, Empty, Empty) IN
     reqs' = [reqs EXCEPT ![r] =
       IF ~a.next THEN Respond(q, a.res)
       ELSE [q EXCEPT !.user = a.user, !.pc = "select"]]
  /\ UNCHANGED <<store, client, tables, sockets, emitted, now>>

GetProfileSelect(r) ==
  /\ reqs[r].kind = "get_profile" /\ reqs[r].pc = "select"
  /\ LET q == Queried(reqs[r])
         rows == ProfileRows(q.user.user_id) IN
     reqs' = [reqs EXCEPT ![r] =
       IF rows = {} THEN Respond(q, Res(404, "User not found", Empty))
       ELSE Respond(q, Res(200, "", [user |-> CHOOSE u \in rows : TRUE]))]
  /\ UNCHANGED <<store, client, tables, sockets, emitted, now>>

PutProfileArrive(r, hdr, body) ==
  /\ Idle(r)
  /\ LET a == AuthenticateToken(hdr, now)
         q == Arrive("put_profile", hdr, Empty, body) IN
     reqs' = [reqs EXCEPT ![r] =
       IF ~a.next THEN Respond(q, a.res)
       ELSE IF ~Truthy(body, "name") \/ ~Truthy(body, "email")
         THEN Respond([q EXCEPT !.user = a.user],
                      Res(400, "Name and email are required", Empty))
         ELSE [q EXCEPT !.user = a.user, !.pc = "update", !.loc = [timestamp |-> now]]]
  /\ UNCHANGED <<store, client, tables, sockets, emitted, now>>

\* PutProfileUpdate on a users table whose email is not declared UNIQUE.
PutProfileUpdate_NoUnique(r) ==
  /\ reqs[r].kind = "put_profile" /\ reqs[r].pc = "update"
  /\ LET q == Queried(reqs[r])
         id == q.user.user_id IN
     /\ users' = IF id \notin DOMAIN users THEN users
                 ELSE [users EXCEPT ![id] =
                        [@ EXCEPT !.name = q.body.name, !.email = q.body.email,
                                  !.profile_picture = OrNull(q.body, "profile_picture"),
                                  !.updated_at = q.loc.timestamp]]
     /\ reqs' = [reqs EXCEPT ![r] = [q EXCEPT !.pc = "select"]]
  /\ UNCHANGED <<store, client, projects, tasks, subtasks, task_comments, task_assignees, task_labels,
                 notifications, sockets, emitted, now>>

\* UPDATE users SET name, email, profile_picture, updated_at WHERE user_id = $5.
PutProfileUpdate(r) ==
  /\ reqs[r].kind = "put_profile" /\ reqs[r].pc = "update"
  /\ LET q == Queried(reqs[r])
         id == q.user.user_id IN
     IF id \notin DOMAIN users
       THEN /\ users' = users
            /\ reqs' = [reqs EXCEPT ![r] = [q EXCEPT !.pc = "select"]]
       ELSE IF \E u \in Rows(users) : u.user_id # id /\ u.email = q.body.email
         THEN /\ users' = users
              /\ reqs' = [reqs EXCEPT ![r] = Respond(q, InternalError)]
         ELSE /\ users' = [users EXCEPT ![id] =
                   [@ EXCEPT !.name = q.body.name, !.email = q.body.email,
                             !.profile_picture = OrNull(q.body, "profile_picture"),
                             !.updated_at = q.loc.timestamp]]
              /\ reqs' = [reqs EXCEPT ![r] = [q EXCEPT !.pc = "select"]]
  /\ UNCHANGED <<store, client, projects, tasks, subtasks, task_comments, task_assignees, task_labels,
                 notifications, sockets, emitted, now>>

PutProfileSelect(r) ==
  /\ reqs[r].kind = "put_profile" /\ reqs[r].pc = "select"
  /\ LET q == Queried(reqs[r]) IN
     reqs' = [reqs EXCEPT ![r] =
       Respond(q, Res(200, "Profile updated", [user |-> ProfileRows(q.user.user_id)]))]
  /\ UNCHANGED <<store, client, tables, sockets, emitted, now>>

(* --------------------------- GET /api/dashboard ------------------------ *)

GetDashboardArrive(r, hdr) ==
  /\ Idle(r)
  /\ LET a == AuthenticateToken(hdr, now)
         q == Arrive("get_dashboard", hdr, Empty, Empty) IN
     reqs' = [reqs EXCEPT ![r] =
       IF ~a.next THEN Respond(q, a.res)
       ELSE [q EXCEPT !.user = a.user, !.pc = "stats"]]
  /\ UNCHANGED <<store, client, tables, sockets, emitted, now>>

\* COUNT(*) FILTER (WHERE status = s) ... FROM tasks WHERE creator_id = $1.
Statistics(user_id) ==
  LET mine == {t \in DOMAIN tasks : tasks[t].creator_id = user_id} IN
  [pending |-> Cardinality({t \in mine : tasks[t].status = "pending"}),
   in_progress |-> Cardinality({t \in mine : tasks[t].status = "in_progress"}),
   completed |-> Cardinality({t \in mine : tasks[t].status = "completed"}),
   total_tasks |-> Cardinality(mine)]

GetDashboardStats(r) ==
  /\ reqs[r].kind = "get_dashboard" /\ reqs[r].pc = "stats"
  /\ LET q == Queried(reqs[r]) IN
     reqs' = [reqs EXCEPT ![r] =
       [q EXCEPT !.pc = "deadlines", !.loc = [statistics |-> Statistics(q.user.user_id)]]]
  /\ UNCHANGED <<store, client, tables, sockets, emitted, now>>

\* The tasks the deadline query ranges over: creator_id = $1 AND due_date IS NOT NULL.
WithDeadline(user_id) ==
  {t \in DOMAIN tasks : tasks[t].creator_id = user_id /\ tasks[t].due_date # Null}

\* The due_date texts of this model in the order ORDER BY due_date ASC gives a
\* TEXT column. All are of the form YYYY-MM-DD, for which the order of the text is
\* the order of the dates.
DueDateTexts == <<"2023-10-12", "2023-10-15", "2023-10-18", "2023-10-20", "2023-10-25">>

\* a sorts before b or with it.
DueDateLeq(a, b) ==
  \E i, j \in 1..Len(DueDateTexts) : DueDateTexts[i] = a /\ DueDateTexts[j] = b /\ i <= j

\* ORDER BY due_date ASC LIMIT k over the tasks W: every sequence the query may
\* return, the order among equal due dates being whatever storage yields.
RECURSIVE OrderedByDueDate(_, _)
OrderedByDueDate(W, k) ==
  IF k = 0 \/ W = {} THEN {<<>>}
  ELSE LET first == {t \in W : \A u \in W : DueDateLeq(tasks[t].due_date, tasks[u].due_date)}
       IN UNION { { <<t>> \o s : s \in OrderedByDueDate(W \ {t}, k - 1) } : t \in first }

\* SELECT task_id, title, due_date.
DeadlineRow(t) ==
  [task_id |-> tasks[t].task_id, title |-> tasks[t].title, due_date |-> tasks[t].due_date]

GetDashboardDeadlines_Unordered(r) ==
  /\ reqs[r].kind = "get_dashboard" /\ reqs[r].pc = "deadlines"
  /\ LET q == Queried(reqs[r])
         W == WithDeadline(q.user.user_id)
         k == IF Cardinality(W) < DeadlineLimit THEN Cardinality(W) ELSE DeadlineLimit IN
     \E s \in {x \in [1..k -> W] : \A i, j \in 1..k : x[i] = x[j] => i = j} :
       reqs' = [reqs EXCEPT ![r] =
         Respond(q, Res(200, "", [statistics |-> q.loc.statistics,
                                  upcoming_deadlines |-> [i \in 1..k |-> DeadlineRow(s[i])]]))]
  /\ UNCHANGED <<store, client, tables, sockets, emitted, now>>

GetDashboardDeadlines(r) ==
  /\ reqs[r].kind = "get_dashboard" /\ reqs[r].pc = "deadlines"
  /\ LET q == Queried(reqs[r]) IN
     \E s \in OrderedByDueDate(WithDeadline(q.user.user_id), DeadlineLimit) :
       reqs' = [reqs EXCEPT ![r] =
         Respond(q, Res(200, "", [statistics |-> q.loc.statistics,
                                  upcoming_deadlines |-> [i \in 1..Len(s) |-> DeadlineRow(s[i])]]))]
  /\ UNCHANGED <<store, client, tables, sockets, emitted, now>>

(* ----------------------------- POST /api/tasks ------------------------- *)

\* const { priority = "medium", status = "pending", assignees = [], ... } = req.body.
Default(o, k, d) == IF Has(o, k) THEN o[k] ELSE d

PostTaskArrive(r, hdr, body) ==
  /\ Idle(r)
  /\ LET a == AuthenticateToken(hdr, now)
         q == Arrive("post_task", hdr, Empty, body)
         sts == Default(body, "subtasks", <<>>) IN
     reqs' = [reqs EXCEPT ![r] =
       IF ~a.next THEN Respond(q, a.res)
       ELSE IF ~Truthy(body, "title")
         THEN Respond([q EXCEPT !.user = a.user], Res(400, "Title is required", Empty))
       ELSE IF Len(sts) > 0 /\ ~(\A i \in 1..Len(sts) : Truthy(sts[i], "title"))
         THEN Respond([q EXCEPT !.user = a.user],
                      Res(400, "Each subtask must have a title", Empty))
         ELSE [q EXCEPT !.user = a.user, !.pc = "insert_task",
                        !.loc = [task_id |-> uuidv4(r, 1), timestamp |-> now, i |-> 1]]]
  /\ UNCHANGED <<store, client, tables, sockets, emitted, now>>

\* The tasks row POST /api/tasks inserts.
PostTaskRow(q) ==
  [task_id |-> q.loc.task_id, title |-> q.body.title,
   description |-> OrNull(q.body, "description"), due_date |-> OrNull(q.body, "due_date"),
   priority |-> Default(q.body, "priority", "medium"),
   status |-> Default(q.body, "status", "pending"),
   creator_id |-> q.user.user_id, project_id |-> OrNull(q.body, "project_id"),
   created_at |-> q.loc.timestamp, updated_at |-> q.loc.timestamp]

\* tasks: creator_id REFERENCES users, project_id REFERENCES projects.
TasksRowOk(row) ==
  /\ row.creator_id \in DOMAIN users
  /\ row.project_id = Null \/ row.project_id \in DOMAIN projects

\* The position after the child insert at `phase`, index i.
AfterChild(q, phase) ==
  LET n == Len(Default(q.body, phase, <<>>)) IN
  IF q.loc.i < n THEN [q EXCEPT !.loc.i = @ + 1]
  ELSE IF phase = "subtasks" /\ Len(Default(q.body, "assignees", <<>>)) > 0
    THEN [q EXCEPT !.pc = "insert_assignee", !.loc.i = 1]
  ELSE IF phase \in {"subtasks", "assignees"} /\ Len(Default(q.body, "labels", <<>>)) > 0
    THEN [q EXCEPT !.pc = "insert_label", !.loc.i = 1]
  ELSE [q EXCEPT !.pc = "emit"]

\* The position after the task row is in: the first loop that has an element.
AfterTask(q) ==
  IF Len(Default(q.body, "subtasks", <<>>)) > 0
    THEN [q EXCEPT !.pc = "insert_subtask", !.loc.i = 1]
    ELSE AfterChild([q EXCEPT !.loc.i = 0], "subtasks")

PostTaskInsertTask(r) ==
  /\ reqs[r].kind = "post_task" /\ reqs[r].pc = "insert_task"
  /\ LET q == Queried(reqs[r])
         row == PostTaskRow(q) IN
     IF TasksRowOk(row) /\ row.task_id \notin DOMAIN tasks
       THEN /\ tasks' = Insert(tasks, row.task_id, row)
            /\ reqs' = [reqs EXCEPT ![r] = AfterTask(q)]
       ELSE /\ tasks' = tasks
            /\ reqs' = [reqs EXCEPT ![r] = Respond(q, InternalError)]
  /\ UNCHANGED <<store, client, users, projects, subtasks, task_comments, task_assignees, task_labels,
                 notifications, sockets, emitted, now>>

\* INSERT INTO subtasks for q.body.subtasks[i]; task_id REFERENCES tasks.
PostTaskInsertSubtask(r) ==
  /\ reqs[r].kind = "post_task" /\ reqs[r].pc = "insert_subtask"
  /\ LET q == Queried(reqs[r])
         id == uuidv4(r, 1 + q.loc.i)
         row == [subtask_id |-> id, task_id |-> q.loc.task_id,
                 title |-> q.body.subtasks[q.loc.i].title, is_completed |-> FALSE,
                 created_at |-> q.loc.timestamp, updated_at |-> q.loc.timestamp] IN
     IF row.task_id \in DOMAIN tasks
       THEN /\ subtasks' = Insert(subtasks, id, row)
            /\ reqs' = [reqs EXCEPT ![r] = AfterChild(q, "subtasks")]
       ELSE /\ subtasks' = subtasks
            /\ reqs' = [reqs EXCEPT ![r] = Respond(q, InternalError)]
  /\ UNCHANGED <<store, client, users, projects, tasks, task_comments, task_assignees, task_labels,
                 notifications, sockets, emitted, now>>

\* PostTaskInsertAssignee as it would be inside a transaction: a failed INSERT takes
\* the task row and the rows inserted for it back out.
PostTaskInsertAssignee_RollsBack(r) ==
  /\ reqs[r].kind = "post_task" /\ reqs[r].pc = "insert_assignee"
  /\ LET q == Queried(reqs[r])
         id == uuidv4(r, 10 + q.loc.i)
         row == [record_id |-> id, task_id |-> q.loc.task_id,
                 user_id |-> q.body.assignees[q.loc.i], assigned_at |-> q.loc.timestamp] IN
     IF row.task_id \in DOMAIN tasks /\ row.user_id \in DOMAIN users
       THEN /\ task_assignees' = Insert(task_assignees, id, row)
            /\ reqs' = [reqs EXCEPT ![r] = AfterChild(q, "assignees")]
            /\ UNCHANGED <<store, client, tasks, subtasks>>
       ELSE /\ task_assignees' = DeleteWhereTask(task_assignees, q.loc.task_id)
            /\ subtasks' = DeleteWhereTask(subtasks, q.loc.task_id)
            /\ tasks' = DeleteWhereTask(tasks, q.loc.task_id)
            /\ reqs' = [reqs EXCEPT ![r] = Respond(q, InternalError)]
  /\ UNCHANGED <<store, client, users, projects, task_comments, task_labels,
                 notifications, sockets, emitted, now>>

\* INSERT INTO task_assignees; task_id REFERENCES tasks, user_id REFERENCES users.
PostTaskInsertAssignee(r) ==
  /\ reqs[r].kind = "post_task" /\ reqs[r].pc = "insert_assignee"
  /\ LET q == Queried(reqs[r])
         id == uuidv4(r, 10 + q.loc.i)
         row == [record_id |-> id, task_id |-> q.loc.task_id,
                 user_id |-> q.body.assignees[q.loc.i], assigned_at |-> q.loc.timestamp] IN
     IF row.task_id \in DOMAIN tasks /\ row.user_id \in DOMAIN users
       THEN /\ task_assignees' = Insert(task_assignees, id, row)
            /\ reqs' = [reqs EXCEPT ![r] = AfterChild(q, "assignees")]
       ELSE /\ task_assignees' = task_assignees
            /\ reqs' = [reqs EXCEPT ![r] = Respond(q, InternalError)]
  /\ UNCHANGED <<store, client, users, projects, tasks, subtasks, task_comments, task_labels,
                 notifications, sockets, emitted, now>>

\* INSERT INTO task_labels; task_id REFERENCES tasks, label_id REFERENCES labels.
PostTaskInsertLabel(r) ==
  /\ reqs[r].kind = "post_task" /\ reqs[r].pc = "insert_label"
  /\ LET q == Queried(reqs[r])
         id == uuidv4(r, 20 + q.loc.i)
         row == [record_id |-> id, task_id |-> q.loc.task_id,
                 label_id |-> q.body.labels[q.loc.i]] IN
     IF row.task_id \in DOMAIN tasks /\ row.label_id \in Labels
       THEN /\ task_labels' = Insert(task_labels, id, row)
            /\ reqs' = [reqs EXCEPT ![r] = AfterChild(q, "labels")]
       ELSE /\ task_labels' = task_labels
            /\ reqs' = [reqs EXCEPT ![r] = Respond(q, InternalError)]
  /\ UNCHANGED <<store, client, users, projects, tasks, subtasks, task_comments, task_assignees,
                 notifications, sockets, emitted, now>>

\* io.emit("task_created", ...) and the 201 response.
PostTaskEmit(r) ==
  /\ reqs[r].kind = "post_task" /\ reqs[r].pc = "emit"
  /\ LET q == reqs[r]
         taskCreatedPayload ==
           [task_id |-> q.loc.task_id, title |-> q.body.title,
            status |-> Default(q.body, "status", "pending"),
            due_date |-> OrNull(q.body, "due_date"), creator_id |-> q.user.user_id] IN
     /\ IoEmit(r, "task_created", taskCreatedPayload)
     /\ reqs' = [reqs EXCEPT ![r] =
          Respond(q, Res(201, "Task created", [task |-> taskCreatedPayload]))]
  /\ UNCHANGED <<store, client, tables, now>>

(* ------------------------------ GET /api/tasks ------------------------- *)

GetTasksArrive(r, hdr, query) ==
  /\ Idle(r)
  /\ LET a == AuthenticateToken(hdr, now)
         q == Arrive("get_tasks", hdr, query, Empty) IN
     reqs' = [reqs EXCEPT ![r] =
       IF ~a.next THEN Respond(q, a.res)
       ELSE [q EXCEPT !.user = a.user, !.pc = "select"]]
  /\ UNCHANGED <<store, client, tables, sockets, emitted, now>>

\* t.task_id IN (SELECT task_id FROM task_assignees WHERE user_id = $1).
AssignedTo(t, user_id) ==
  \E a \in Rows(task_assignees) : a.task_id = t /\ a.user_id = user_id

\* WHERE t.creator_id = $1 OR t.task_id IN (...) [AND t.status = $2]: AND binds
\* tighter than OR.
TasksQuery(user_id, query) ==
  {t \in DOMAIN tasks :
     \/ tasks[t].creator_id = user_id
     \/ /\ AssignedTo(t, user_id)
        /\ Truthy(query, "status") => tasks[t].status = query.status}

\* TaskListRow aggregating without COALESCE: null when the task has no such rows.
TaskListRow_NoCoalesce(t) ==
  LET a == {x.user_id : x \in {y \in Rows(task_assignees) : y.task_id = t}}
      l == {x.label_id : x \in {y \in Rows(task_labels) : y.task_id = t}} IN
  [task |-> tasks[t], assignees |-> IF a = {} THEN {Null} ELSE a,
   labels |-> IF l = {} THEN {Null} ELSE l]

\* A row of the list: t.*, assignees and labels aggregated.
TaskListRow(t) ==
  [task |-> tasks[t],
   assignees |-> {a.user_id : a \in {x \in Rows(task_assignees) : x.task_id = t}},
   labels |-> {l.label_id : l \in {x \in Rows(task_labels) : x.task_id = t}}]

GetTasksSelect(r) ==
  /\ reqs[r].kind = "get_tasks" /\ reqs[r].pc = "select"
  /\ LET q == Queried(reqs[r]) IN
     reqs' = [reqs EXCEPT ![r] =
       Respond(q, Res(200, "", [tasks |->
         {TaskListRow(t) : t \in TasksQuery(q.user.user_id, q.params)}]))]
  /\ UNCHANGED <<store, client, tables, sockets, emitted, now>>

(* -------------------------- GET /api/tasks/:task_id -------------------- *)

GetTaskArrive(r, hdr, task_id) ==
  /\ Idle(r)
  /\ LET a == AuthenticateToken(hdr, now)
         q == Arrive("get_task", hdr, [task_id |-> task_id], Empty) IN
     reqs' = [reqs EXCEPT ![r] =
       IF ~a.next THEN Respond(q, a.res)
       ELSE [q EXCEPT !.user = a.user, !.pc = "select"]]
  /\ UNCHANGED <<store, client, tables, sockets, emitted, now>>

GetTaskSelect(r) ==
  /\ reqs[r].kind = "get_task" /\ reqs[r].pc = "select"
  /\ LET q == Queried(reqs[r])
         id == q.params.task_id IN
     reqs' = [reqs EXCEPT ![r] =
       IF id \notin DOMAIN tasks THEN Respond(q, Res(404, "Task not found", Empty))
       ELSE [q EXCEPT !.pc = "children", !.loc = [task |-> tasks[id]]]]
  /\ UNCHANGED <<store, client, tables, sockets, emitted, now>>

\* The four child queries (subtasks, comments, assignees joined with users, labels).
GetTaskChildren(r) ==
  /\ reqs[r].kind = "get_task" /\ reqs[r].pc = "children"
  /\ LET q == [reqs[r] EXCEPT !.queries = @ + 4]
         id == q.params.task_id IN
     reqs' = [reqs EXCEPT ![r] =
       Respond(q, Res(200, "", [task |-> q.loc.task,
         subtasks |-> {s \in Rows(subtasks) : s.task_id = id},
         comments |-> {c \in Rows(task_comments) : c.task_id = id},
         assignees |-> {a.user_id : a \in {x \in Rows(task_assignees) :
                          x.task_id = id /\ x.user_id \in DOMAIN users}},
         labels |-> {l.label_id : l \in {x \in Rows(task_labels) : x.task_id = id}}]))]
  /\ UNCHANGED <<store, client, tables, sockets, emitted, now>>

(* -------------------------- PUT /api/tasks/:task_id -------------------- *)

PutTaskArrive(r, hdr, task_id, body) ==
  /\ Idle(r)
  /\ LET a == AuthenticateToken(hdr, now)
         q == Arrive("put_task", hdr, [task_id |-> task_id], body) IN
     reqs' = [reqs EXCEPT ![r] =
       IF ~a.next THEN Respond(q, a.res)
       ELSE [q EXCEPT !.user = a.user, !.pc = "select"]]
  /\ UNCHANGED <<store, client, tables, sockets, emitted, now>>

\* IsOwner letting every authenticated caller through.
IsOwner_Anyone(user, owner_id) == Has(user, "user_id")

\* authorize: the caller is the owner.
IsOwner(user, owner_id) == owner_id = user.user_id

\* SELECT * FROM tasks WHERE task_id = $1, the ownership check, the time stamp.
PutTaskSelect(r) ==
  /\ reqs[r].kind = "put_task" /\ reqs[r].pc = "select"
  /\ LET q == Queried(reqs[r])
         id == q.params.task_id IN
     reqs' = [reqs EXCEPT ![r] =
       IF id \notin DOMAIN tasks THEN Respond(q, Res(404, "Task not found", Empty))
       ELSE IF ~IsOwner(q.user, tasks[id].creator_id)
         THEN Respond([q EXCEPT !.loc = [found |-> tasks[id]]],
                Res(403, "Unauthorized: Only the task creator can update the task", Empty))
         ELSE [q EXCEPT !.pc = "update",
                        !.loc = [found |-> tasks[id], timestamp |-> now, updated |-> <<>>]]]
  /\ UNCHANGED <<store, client, tables, sockets, emitted, now>>

\* The SET list: title, priority, status when truthy; description, due_date and
\* project_id when not undefined; updated_at always.
UpdatedTask(row, body, timestamp) ==
  [row EXCEPT
     !.title = IF Truthy(body, "title") THEN body.title ELSE @,
     !.description = IF Has(body, "description") THEN body.description ELSE @,
     !.due_date = IF Has(body, "due_date") THEN body.due_date ELSE @,
     !.priority = IF Truthy(body, "priority") THEN body.priority ELSE @,
     !.status = IF Truthy(body, "status") THEN body.status ELSE @,
     !.project_id = IF Has(body, "project_id") THEN body.project_id ELSE @,
     !.updated_at = timestamp]

\* PutTaskUpdate with a version check: the UPDATE applies only to the row as the
\* SELECT of this request read it, and the request is refused otherwise.
PutTaskUpdate_Versioned(r) ==
  /\ reqs[r].kind = "put_task" /\ reqs[r].pc = "update"
  /\ LET q == Queried(reqs[r])
         id == q.params.task_id IN
     IF id \notin DOMAIN tasks \/ tasks[id] # q.loc.found
       THEN /\ tasks' = tasks
            /\ reqs' = [reqs EXCEPT ![r] = Respond(q, Res(409, "Conflict", Empty))]
       ELSE LET row == UpdatedTask(tasks[id], q.body, q.loc.timestamp) IN
            /\ tasks' = [tasks EXCEPT ![id] = row]
            /\ reqs' = [reqs EXCEPT ![r] =
                 [q EXCEPT !.pc = "emit", !.loc.updated = <<row>>]]
  /\ UNCHANGED <<store, client, users, projects, subtasks, task_comments, task_assignees, task_labels,
                 notifications, sockets, emitted, now>>

\* UPDATE tasks SET ... WHERE task_id = $n RETURNING *.
PutTaskUpdate(r) ==
  /\ reqs[r].kind = "put_task" /\ reqs[r].pc = "update"
  /\ LET q == Queried(reqs[r])
         id == q.params.task_id IN
     IF id \notin DOMAIN tasks
       THEN /\ tasks' = tasks
            /\ reqs' = [reqs EXCEPT ![r] = [q EXCEPT !.pc = "emit", !.loc.updated = <<>>]]
       ELSE LET row == UpdatedTask(tasks[id], q.body, q.loc.timestamp) IN
            IF TasksRowOk(row)
              THEN /\ tasks' = [tasks EXCEPT ![id] = row]
                   /\ reqs' = [reqs EXCEPT ![r] =
                        [q EXCEPT !.pc = "emit", !.loc.updated = <<row>>]]
              ELSE /\ tasks' = tasks
                   /\ reqs' = [reqs EXCEPT ![r] = Respond(q, InternalError)]
  /\ UNCHANGED <<store, client, users, projects, subtasks, task_comments, task_assignees, task_labels,
                 notifications, sockets, emitted, now>>

\* { status, priority, due_date } of the body: JSON drops the undefined ones.
UpdatedFields(body) ==
  [k \in {"status", "priority", "due_date"} \cap DOMAIN body |-> body[k]]

\* io.emit("task_updated", ...) and the response.
PutTaskEmit(r) ==
  /\ reqs[r].kind = "put_task" /\ reqs[r].pc = "emit"
  /\ LET q == reqs[r] IN
     /\ IoEmit(r, "task_updated", [task_id |-> q.params.task_id,
                                   updated_fields |-> UpdatedFields(q.body),
                                   updated_at |-> q.loc.timestamp])
     /\ reqs' = [reqs EXCEPT ![r] =
          Respond(q, Res(200, "Task updated", [task |-> q.loc.updated]))]
  /\ UNCHANGED <<store, client, tables, now>>

(* ------------------------ DELETE /api/tasks/:task_id ------------------- *)

DeleteTaskArrive(r, hdr, task_id) ==
  /\ Idle(r)
  /\ LET a == AuthenticateToken(hdr, now)
         q == Arrive("delete_task", hdr, [task_id |-> task_id], Empty) IN
     reqs' = [reqs EXCEPT ![r] =
       IF ~a.next THEN Respond(q, a.res)
       ELSE [q EXCEPT !.user = a.user, !.pc = "select"]]
  /\ UNCHANGED <<store, client, tables, sockets, emitted, now>>

\* DeleteTaskSelect deleting the task's subtasks before it looks at the owner.
DeleteTaskSelect_DeletesFirst(r) ==
  /\ reqs[r].kind = "delete_task" /\ reqs[r].pc = "select"
  /\ LET q == Queried(reqs[r])
         id == q.params.task_id IN
     /\ reqs' = [reqs EXCEPT ![r] =
          IF id \notin DOMAIN tasks THEN Respond(q, Res(404, "Task not found", Empty))
          ELSE IF ~IsOwner(q.user, tasks[id].creator_id)
            THEN Respond([q EXCEPT !.loc = [found |-> tasks[id]]],
                   Res(403, "Unauthorized: Only the task creator can delete the task", Empty))
            ELSE [q EXCEPT !.pc = "delete_subtasks", !.loc = [found |-> tasks[id]]]]
     /\ subtasks' = DeleteWhereTask(subtasks, id)
  /\ UNCHANGED <<store, client, users, projects, tasks, task_comments, task_assignees, task_labels,
                 notifications, sockets, emitted, now>>

DeleteTaskSelect(r) ==
  /\ reqs[r].kind = "delete_task" /\ reqs[r].pc = "select"
  /\ LET q == Queried(reqs[r])
         id == q.params.task_id IN
     reqs' = [reqs EXCEPT ![r] =
       IF id \notin DOMAIN tasks THEN Respond(q, Res(404, "Task not found", Empty))
       ELSE IF ~IsOwner(q.user, tasks[id].creator_id)
         THEN Respond([q EXCEPT !.loc = [found |-> tasks[id]]],
                Res(403, "Unauthorized: Only the task creator can delete the task", Empty))
         ELSE [q EXCEPT !.pc = "delete_subtasks", !.loc = [found |-> tasks[id]]]]
  /\ UNCHANGED <<store, client, tables, sockets, emitted, now>>

DeleteTaskSubtasks(r) ==
  /\ reqs[r].kind = "delete_task" /\ reqs[r].pc = "delete_subtasks"
  /\ subtasks' = DeleteWhereTask(subtasks, reqs[r].params.task_id)
  /\ reqs' = [reqs EXCEPT ![r] = [Queried(reqs[r]) EXCEPT !.pc = "delete_comments"]]
  /\ UNCHANGED <<store, client, users, projects, tasks, task_comments, task_assignees, task_labels,
                 notifications, sockets, emitted, now>>

DeleteTaskComments(r) ==
  /\ reqs[r].kind = "delete_task" /\ reqs[r].pc = "delete_comments"
  /\ task_comments' = DeleteWhereTask(task_comments, reqs[r].params.task_id)
  /\ reqs' = [reqs EXCEPT ![r] = [Queried(reqs[r]) EXCEPT !.pc = "delete_assignees"]]
  /\ UNCHANGED <<store, client, users, projects, tasks, subtasks, task_assignees, task_labels,
                 notifications, sockets, emitted, now>>

DeleteTaskAssignees(r) ==
  /\ reqs[r].kind = "delete_task" /\ reqs[r].pc = "delete_assignees"
  /\ task_assignees' = DeleteWhereTask(task_assignees, reqs[r].params.task_id)
  /\ reqs' = [reqs EXCEPT ![r] = [Queried(reqs[r]) EXCEPT !.pc = "delete_labels"]]
  /\ UNCHANGED <<store, client, users, projects, tasks, subtasks, task_comments, task_labels,
                 notifications, sockets, emitted, now>>

DeleteTaskLabels(r) ==
  /\ reqs[r].kind = "delete_task" /\ reqs[r].pc = "delete_labels"
  /\ task_labels' = DeleteWhereTask(task_labels, reqs[r].params.task_id)
  /\ reqs' = [reqs EXCEPT ![r] = [Queried(reqs[r]) EXCEPT !.pc = "delete_task"]]
  /\ UNCHANGED <<store, client, users, projects, tasks, subtasks, task_comments, task_assignees,
                 notifications, sockets, emitted, now>>

\* The rows whose FOREIGN KEY (task_id) REFERENCES tasks(task_id) names task id.
Referencing(id) ==
  {x \in Rows(subtasks) \cup Rows(task_comments) \cup Rows(task_assignees)
         \cup Rows(task_labels) \cup Rows(notifications) : x.task_id = id}

\* DELETE FROM tasks WHERE task_id = $1: refused while a row references the task.
DeleteTaskRow(r) ==
  /\ reqs[r].kind = "delete_task" /\ reqs[r].pc = "delete_task"
  /\ LET q == Queried(reqs[r])
         id == q.params.task_id IN
     IF id \in DOMAIN tasks /\ Referencing(id) # {}
       THEN /\ tasks' = tasks
            /\ reqs' = [reqs EXCEPT ![r] = Respond(q, InternalError)]
       ELSE /\ tasks' = [t \in DOMAIN tasks \ {id} |-> tasks[t]]
            /\ reqs' = [reqs EXCEPT ![r] = [q EXCEPT !.pc = "emit"]]
  /\ UNCHANGED <<store, client, users, projects, subtasks, task_comments, task_assignees, task_labels,
                 notifications, sockets, emitted, now>>

\* io.emit("task_deleted", ...) and the response.
DeleteTaskEmit(r) ==
  /\ reqs[r].kind = "delete_task" /\ reqs[r].pc = "emit"
  /\ IoEmit(r, "task_deleted", [task_id |-> reqs[r].params.task_id])
  /\ reqs' = [reqs EXCEPT ![r] =
       Respond(reqs[r], Res(200, "Task deleted successfully", Empty))]
  /\ UNCHANGED <<store, client, tables, now>>

(* --------------------- POST /api/tasks/:task_id/comments --------------- *)

PostCommentArrive(r, hdr, task_id, body) ==
  /\ Idle(r)
  /\ LET a == AuthenticateToken(hdr, now)
         q == Arrive("post_comment", hdr, [task_id |-> task_id], body) IN
     reqs' = [reqs EXCEPT ![r] =
       IF ~a.next THEN Respond(q, a.res)
       ELSE IF ~Truthy(body, "comment_text")
         THEN Respond([q EXCEPT !.user = a.user],
                      Res(400, "Comment text is required", Empty))
         ELSE [q EXCEPT !.user = a.user, !.pc = "insert",
                        !.loc = [comment_id |-> uuidv4(r, 1), timestamp |-> now]]]
  /\ UNCHANGED <<store, client, tables, sockets, emitted, now>>

\* The row and payload of the comment.
CommentPayload(q) ==
  [comment_id |-> q.loc.comment_id, task_id |-> q.params.task_id,
   user_id |-> q.user.user_id, comment_text |-> q.body.comment_text,
   created_at |-> q.loc.timestamp]

\* CommentRowOk without the foreign key on task_id.
CommentRowOk_NoTaskKey(row) == row.user_id \in DOMAIN users

\* task_comments: task_id REFERENCES tasks, user_id REFERENCES users.
CommentRowOk(row) ==
  /\ row.task_id \in DOMAIN tasks
  /\ row.user_id \in DOMAIN users

\* PostCommentInsert on a table that declares no foreign key.
PostCommentInsert_NoKeys(r) ==
  /\ reqs[r].kind = "post_comment" /\ reqs[r].pc = "insert"
  /\ LET q == Queried(reqs[r])
         row == CommentPayload(q) IN
     /\ task_comments' = Insert(task_comments, row.comment_id, row)
     /\ reqs' = [reqs EXCEPT ![r] = [q EXCEPT !.pc = "emit"]]
  /\ UNCHANGED <<store, client, users, projects, tasks, subtasks, task_assignees, task_labels,
                 notifications, sockets, emitted, now>>

\* INSERT INTO task_comments.
PostCommentInsert(r) ==
  /\ reqs[r].kind = "post_comment" /\ reqs[r].pc = "insert"
  /\ LET q == Queried(reqs[r])
         row == CommentPayload(q) IN
     IF CommentRowOk(row) /\ row.comment_id \notin DOMAIN task_comments
       THEN /\ task_comments' = Insert(task_comments, row.comment_id, row)
            /\ reqs' = [reqs EXCEPT ![r] = [q EXCEPT !.pc = "emit"]]
       ELSE /\ task_comments' = task_comments
            /\ reqs' = [reqs EXCEPT ![r] = Respond(q, InternalError)]
  /\ UNCHANGED <<store, client, users, projects, tasks, subtasks, task_assignees, task_labels,
                 notifications, sockets, emitted, now>>

\* io.emit("new_comment", ...) and the 201 response.
PostCommentEmit(r) ==
  /\ reqs[r].kind = "post_comment" /\ reqs[r].pc = "emit"
  /\ IoEmit(r, "new_comment", CommentPayload(reqs[r]))
  /\ reqs' = [reqs EXCEPT ![r] =
       Respond(reqs[r], Res(201, "Comment added", [comment |-> CommentPayload(reqs[r])]))]
  /\ UNCHANGED <<store, client, tables, now>>

(* ------------------------------ notifications -------------------------- *)

GetNotificationsArrive(r, hdr) ==
  /\ Idle(r)
  /\ LET a == AuthenticateToken(hdr, now)
         q == Arrive("get_notifications", hdr, Empty, Empty) IN
     reqs' = [reqs EXCEPT ![r] =
       IF ~a.next THEN Respond(q, a.res)
       ELSE [q EXCEPT !.user = a.user, !.pc = "select"]]
  /\ UNCHANGED <<store, client, tables, sockets, emitted, now>>

\* SELECT ... FROM notifications WHERE user_id = $1 (the rows; their order is not modelled).
GetNotificationsSelect(r) ==
  /\ reqs[r].kind = "get_notifications" /\ reqs[r].pc = "select"
  /\ LET q == Queried(reqs[r]) IN
     reqs' = [reqs EXCEPT ![r] =
       Respond(q, Res(200, "", [notifications |->
         {n \in Rows(notifications) : n.user_id = q.user.user_id}]))]
  /\ UNCHANGED <<store, client, tables, sockets, emitted, now>>

PutNotificationArrive(r, hdr, notification_id, body) ==
  /\ Idle(r)
  /\ LET a == AuthenticateToken(hdr, now)
         q == Arrive("put_notification", hdr, [notification_id |-> notification_id], body) IN
     reqs' = [reqs EXCEPT ![r] =
       IF ~a.next THEN Respond(q, a.res)
       ELSE [q EXCEPT !.user = a.user, !.pc = "select"]]
  /\ UNCHANGED <<store, client, tables, sockets, emitted, now>>

PutNotificationSelect(r) ==
  /\ reqs[r].kind = "put_notification" /\ reqs[r].pc = "select"
  /\ LET q == Queried(reqs[r])
         id == q.params.notification_id IN
     reqs' = [reqs EXCEPT ![r] =
       IF id \notin DOMAIN notifications
         THEN Respond(q, Res(404, "Notification not found", Empty))
       ELSE IF ~IsOwner(q.user, notifications[id].user_id)
         THEN Respond(q, Res(403, "Unauthorized: Cannot update this notification", Empty))
         ELSE [q EXCEPT !.pc = "update"]]
  /\ UNCHANGED <<store, client, tables, sockets, emitted, now>>

\* PutNotificationUpdate flipping the stored is_read instead of storing the body's.
PutNotificationUpdate_Toggles(r) ==
  /\ reqs[r].kind = "put_notification" /\ reqs[r].pc = "update"
  /\ LET q == Queried(reqs[r])
         id == q.params.notification_id IN
     /\ notifications' = IF id \in DOMAIN notifications /\ Has(q.body, "is_read")
                            THEN [notifications EXCEPT ![id].is_read = ~@]
                            ELSE notifications
     /\ reqs' = [reqs EXCEPT ![r] =
          IF id \in DOMAIN notifications /\ ~Has(q.body, "is_read")
            THEN Respond(q, InternalError)
            ELSE Respond(q, Res(200, "Notification updated", Empty))]
  /\ UNCHANGED <<store, client, users, projects, tasks, subtasks, task_comments, task_assignees,
                 task_labels, sockets, emitted, now>>

\* UPDATE notifications SET is_read = $1 WHERE notification_id = $2; is_read is NOT NULL
\* and an undefined parameter is sent as NULL.
PutNotificationUpdate(r) ==
  /\ reqs[r].kind = "put_notification" /\ reqs[r].pc = "update"
  /\ LET q == Queried(reqs[r])
         id == q.params.notification_id IN
     IF id \notin DOMAIN notifications
       THEN /\ notifications' = notifications
            /\ reqs' = [reqs EXCEPT ![r] =
                 Respond(q, Res(200, "Notification updated", Empty))]
       ELSE IF ~Has(q.body, "is_read")
         THEN /\ notifications' = notifications
              /\ reqs' = [reqs EXCEPT ![r] = Respond(q, InternalError)]
         ELSE /\ notifications' = [notifications EXCEPT ![id].is_read = q.body.is_read]
              /\ reqs' = [reqs EXCEPT ![r] =
                   Respond(q, Res(200, "Notification updated", Empty))]
  /\ UNCHANGED <<store, client, users, projects, tasks, subtasks, task_comments, task_assignees,
                 task_labels, sockets, emitted, now>>

(* -------------------------------- projects ----------------------------- *)

PostProjectArrive(r, hdr, body) ==
  /\ Idle(r)
  /\ LET a == AuthenticateToken(hdr, now)
         q == Arrive("post_project", hdr, Empty, body) IN
     reqs' = [reqs EXCEPT ![r] =
       IF ~a.next THEN Respond(q, a.res)
       ELSE IF ~Truthy(body, "title")
         THEN Respond([q EXCEPT !.user = a.user],
                      Res(400, "Project title is required", Empty))
         ELSE [q EXCEPT !.user = a.user, !.pc = "insert",
                        !.loc = [project_id |-> uuidv4(r, 1), timestamp |-> now]]]
  /\ UNCHANGED <<store, client, tables, sockets, emitted, now>>

\* INSERT INTO projects; creator_id REFERENCES users.
PostProjectInsert(r) ==
  /\ reqs[r].kind = "post_project" /\ reqs[r].pc = "insert"
  /\ LET q == Queried(reqs[r])
         row == [project_id |-> q.loc.project_id, title |-> q.body.title,
                 description |-> OrNull(q.body, "description"),
                 due_date |-> OrNull(q.body, "due_date"), creator_id |-> q.user.user_id,
                 created_at |-> q.loc.timestamp, updated_at |-> q.loc.timestamp] IN
     IF row.creator_id \in DOMAIN users /\ row.project_id \notin DOMAIN projects
       THEN /\ projects' = Insert(projects, row.project_id, row)
            /\ reqs' = [reqs EXCEPT ![r] = Respond(q, Res(201, "Project created",
                 [project |-> [project_id |-> row.project_id, title |-> row.title]]))]
       ELSE /\ projects' = projects
            /\ reqs' = [reqs EXCEPT ![r] = Respond(q, InternalError)]
  /\ UNCHANGED <<store, client, users, tasks, subtasks, task_comments, task_assignees, task_labels,
                 notifications, sockets, emitted, now>>

GetProjectArrive(r, hdr, project_id) ==
  /\ Idle(r)
  /\ LET a == AuthenticateToken(hdr, now)
         q == Arrive("get_project", hdr, [project_id |-> project_id], Empty) IN
     reqs' = [reqs EXCEPT ![r] =
       IF ~a.next THEN Respond(q, a.res)
       ELSE [q EXCEPT !.user = a.user, !.pc = "select"]]
  /\ UNCHANGED <<store, client, tables, sockets, emitted, now>>

GetProjectSelect(r) ==
  /\ reqs[r].kind = "get_project" /\ reqs[r].pc = "select"
  /\ LET q == Queried(reqs[r])
         id == q.params.project_id IN
     reqs' = [reqs EXCEPT ![r] =
       IF id \notin DOMAIN projects THEN Respond(q, Res(404, "Project not found", Empty))
       ELSE [q EXCEPT !.pc = "tasks", !.loc = [project |-> projects[id]]]]
  /\ UNCHANGED <<store, client, tables, sockets, emitted, now>>

\* SELECT task_id, title, status, due_date FROM tasks WHERE project_id = $1.
GetProjectTasks(r) ==
  /\ reqs[r].kind = "get_project" /\ reqs[r].pc = "tasks"
  /\ LET q == Queried(reqs[r]) IN
     reqs' = [reqs EXCEPT ![r] =
       Respond(q, Res(200, "", [project |-> q.loc.project,
         tasks |-> {t \in DOMAIN tasks : tasks[t].project_id = q.params.project_id}]))]
  /\ UNCHANGED <<store, client, tables, sockets, emitted, now>>

(* ------------------------------ GET /api/labels ------------------------ *)

\* No authenticateToken on this route.
GetLabels(r) ==
  /\ Idle(r)
  /\ reqs' = [reqs EXCEPT ![r] =
       Respond(Queried(Arrive("get_labels", <<>>, Empty, Empty)),
               Res(200, "", [labels |-> Labels]))]
  /\ UNCHANGED <<store, client, tables, sockets, emitted, now>>

(* ------------------------------ the clock ------------------------------ *)

Tick ==
  /\ now < MaxTime
  /\ now' = now + 1
  /\ UNCHANGED <<store, client, tables, reqs, sockets, emitted>>

(* ----------------------------- the client store ------------------------ *)

\* Entries the notifications list may hold at once, and the cap of unread_count.
MaxList == 3

\* Sockets init_realtime may have made in one behaviour.
MaxSockets == 2

\* create(...)'s defaults: auth_state, notification_state, realtime_state.
InitStore ==
  [auth_state |-> [token |-> "", is_authenticated |-> FALSE],
   notification_state |-> [notifications |-> <<>>, unread_count |-> 0],
   realtime_state |-> [socket_connected |-> FALSE, subscribed_events |-> <<>>]]

\* The page has loaded: no socket yet, App's effect has not run for any token.
InitClient == [sockets |-> <<>>, deps |-> <<>>]

\* const events = [...] of init_realtime.
Events ==
  <<"task_created", "task_updated", "new_comment", "notification_created",
    "task_deleted", "assignee_updated">>

\* notifications.filter(n => !n.is_read).length
Unread(list) == Cardinality({i \in 1..Len(list) : ~list[i].is_read})

\* The set((state) => ...) of add_notification and of the notification_created
\* handler: append, and count the entry when it is unread.
WithNotification(st, notification) ==
  [st EXCEPT !.notification_state =
     [notifications |-> Append(st.notification_state.notifications, notification),
      unread_count |-> st.notification_state.unread_count
                         + (IF notification.is_read THEN 0 ELSE 1)]]

add_notification(notification) ==
  /\ Len(store.notification_state.notifications) < MaxList
  /\ store' = WithNotification(store, notification)
  /\ UNCHANGED <<client, server>>

set_notifications(list) ==
  /\ store' = [store EXCEPT !.notification_state =
                 [notifications |-> list, unread_count |-> Unread(list)]]
  /\ UNCHANGED <<client, server>>

clear_notifications ==
  /\ store' = [store EXCEPT !.notification_state =
                 [notifications |-> <<>>, unread_count |-> 0]]
  /\ UNCHANGED <<client, server>>

increment_unread_count(count) ==
  /\ store.notification_state.unread_count + count <= MaxList
  /\ store' = [store EXCEPT !.notification_state.unread_count = @ + count]
  /\ UNCHANGED <<client, server>>

reset_unread_count ==
  /\ store' = [store EXCEPT !.notification_state.unread_count = 0]
  /\ UNCHANGED <<client, server>>

\* set_auth(data) with a token, as after a login.
set_auth(token) ==
  /\ store' = [store EXCEPT !.auth_state = [token |-> token, is_authenticated |-> TRUE]]
  /\ UNCHANGED <<client, server>>

\* clear_auth(), as at a logout.
clear_auth ==
  /\ store' = [store EXCEPT !.auth_state = [token |-> "", is_authenticated |-> FALSE]]
  /\ UNCHANGED <<client, server>>

\* The forEach of init_realtime on realtime_state: each event name is appended
\* unless the list includes it.
RECURSIVE Subscribed(_, _)
Subscribed(list, i) ==
  IF i > Len(Events) THEN list
  ELSE Subscribed(IF \E j \in 1..Len(list) : list[j] = Events[i]
                    THEN list ELSE Append(list, Events[i]), i + 1)

\* init_realtime(token): io(url, { auth }) makes a socket of its own, the handlers
\* are registered on it, the event names are recorded. No earlier socket is closed.
\* The value is the store and the runtime after the call.
init_realtime(token) ==
  [store |-> [store EXCEPT !.realtime_state.subscribed_events = Subscribed(@, 1)],
   client |-> [client EXCEPT
      !.sockets = Append(@, [token |-> IF token # "" THEN token
                                       ELSE store.auth_state.token,
                             connected |-> FALSE])]]

\* App's useEffect(() => { if (token) initRealtime(token) }, [token, initRealtime]):
\* it runs after the first render and after a render in which token differs from the
\* one it last ran for.
AppEffect ==
  /\ client.deps # <<store.auth_state.token>>
  /\ Len(client.sockets) < MaxSockets
  /\ LET token == store.auth_state.token
         after == IF token # "" THEN init_realtime(token)
                  ELSE [store |-> store, client |-> client] IN
     /\ store' = after.store
     /\ client' = [after.client EXCEPT !.deps = <<token>>]
  /\ UNCHANGED server

\* socket.on('connect'): the server has admitted socket k.
SocketConnect(k) ==
  /\ k \in 1..Len(client.sockets) /\ ~client.sockets[k].connected
  /\ client' = [client EXCEPT !.sockets[k].connected = TRUE]
  /\ store' = [store EXCEPT !.realtime_state.socket_connected = TRUE]
  /\ UNCHANGED server

\* socket.on('disconnect'): the transport of socket k is lost.
SocketDisconnect(k) ==
  /\ k \in 1..Len(client.sockets) /\ client.sockets[k].connected
  /\ client' = [client EXCEPT !.sockets[k].connected = FALSE]
  /\ store' = [store EXCEPT !.realtime_state.socket_connected = FALSE]
  /\ UNCHANGED server

\* The store after the notification_created handlers of sockets k..n have run.
RECURSIVE Received(_, _, _)
Received(st, notification, k) ==
  IF k > Len(client.sockets) THEN st
  ELSE Received(IF client.sockets[k].connected
                  THEN WithNotification(st, notification) ELSE st,
                notification, k + 1)

\* The server sends one notification_created event: it reaches every connected
\* socket of this browser, and the handler registered on each runs.
notification_created(notification) ==
  /\ \E k \in 1..Len(client.sockets) : client.sockets[k].connected
  /\ Len(store.notification_state.notifications) + Len(client.sockets) <= MaxList
  /\ store' = Received(store, notification, 1)
  /\ UNCHANGED <<client, server>>

(* ------------------------------- Init ---------------------------------- *)

IdleSocket ==
  [state |-> "none", auth |-> <<>>, query |-> <<>>, user |-> NoUser, at |-> 0,
   since |-> 0, until |-> 0, observed |-> <<>>]

\* The store as db.sql seeds it, no request, no connection.
Init ==
  /\ users = SeedUsers
  /\ projects = SeedProjects
  /\ tasks = SeedTasks
  /\ subtasks = SeedSubtasks
  /\ task_comments = SeedComments
  /\ task_assignees = SeedAssignees
  /\ task_labels = SeedTaskLabels
  /\ notifications = SeedNotifications
  /\ reqs = [r \in ReqIds |-> IdleReq]
  /\ sockets = [c \in ConnIds |-> IdleSocket]
  /\ emitted = <<>>
  /\ now = 1
  /\ store = InitStore
  /\ client = InitClient

(* ------------------------------ inputs --------------------------------- *)

\* The claims a token for stored user u carries.
ClaimsOf(u) == Claims(users[u].user_id, users[u].email, users[u].name, users[u].user_role)

\* Authorization: Bearer <token>.
Bearer(token) == <<"Bearer", token>>

\* A token for stored user u signed with JWT_SECRET at time t.
TokenOf(u, t) == JwtSign(ClaimsOf(u), t)

\* The header of a caller who holds a token for u that is valid now.
AsUser(u) == Bearer(TokenOf(u, now))

\* A token for u signed at time t with another secret.
ForgedToken(u, t) == [TokenOf(u, t) EXCEPT !.sig = "invalid"]

(* --------------------- registration and login -------------------------- *)

RegisterBodies ==
  { [name |-> "Dan", email |-> "dan@example.com", password |-> "pw1"],
    [name |-> "Dan", email |-> "dan@example.com", password |-> "pw2",
     user_role |-> "admin"],
    [name |-> "Eve", email |-> "alice@example.com", password |-> "pw1"],
    [name |-> "", email |-> "dan@example.com", password |-> "pw1"],
    [name |-> "Dan", password |-> "pw1"] }

LoginBodies ==
  { [email |-> "dan@example.com", password |-> "pw1"],
    [email |-> "dan@example.com", password |-> "pw2"],
    [email |-> "alice@example.com", password |-> "hashed_password_alice"],
    [email |-> "nobody@example.com", password |-> "pw1"],
    [email |-> "dan@example.com", password |-> ""],
    [password |-> "pw1"] }

ProfileBodies ==
  { [name |-> "Daniel", email |-> "daniel@example.com"],
    [name |-> "Alice J", email |-> "alice@example.com"] }

NextAccounts ==
  \/ \E r \in ReqIds, body \in RegisterBodies : RegisterArrive(r, body)
  \/ \E r \in ReqIds : RegisterSelect(r)
  \/ \E r \in ReqIds : RegisterInsert(r)
  \/ \E r \in ReqIds, body \in LoginBodies : LoginArrive(r, body)
  \/ \E r \in ReqIds : LoginSelect(r)
  \/ \E r \in ReqIds : LoginCompare(r)
  \/ \E r \in ReqIds, u \in DOMAIN users, body \in ProfileBodies :
       PutProfileArrive(r, AsUser(u), body)
  \/ \E r \in ReqIds : PutProfileUpdate(r)
  \/ \E r \in ReqIds : PutProfileSelect(r)

SpecAccounts == Init /\ [][NextAccounts]_vars


(* ======================= the claims: accounts ========================== *)

\* The registration in slot r carries every required field.
ValidRegistration(q) ==
  Truthy(q.body, "name") /\ Truthy(q.body, "email") /\ Truthy(q.body, "password")

\* The stored users holding email e.
HoldersOf(e) == {u \in DOMAIN users : users[u].email = e}

\* No two stored users share an email.
EmailsUnique == \A u, v \in DOMAIN users : users[u].email = users[v].email => u = v

\* C8: no two User rows ever share an email, and every registration that is
\* decided while a stored User holds its email is answered 400 'Email already in
\* use' and inserts no row, overlapping registrations included.
C8_DuplicateEmail ==
  [][ /\ EmailsUnique'
      /\ \A r \in ReqIds :
           ( /\ reqs[r].kind = "register" /\ ~Done(r) /\ reqs'[r].pc = "done"
             /\ HoldersOf(reqs[r].body.email) # {} )
           => /\ reqs'[r].res = Res(400, "Email already in use", Empty)
              /\ users' = users ]_vars

\* C9: login succeeds iff, at the moment it reads the users table, a User with that
\* email is stored and the password matches that user's stored hash; on success the
\* token's claims and the returned user are that stored user's user_id, email, name
\* and role.
C9_LoginIffStoredMatch ==
  [][ \A r \in ReqIds :
        /\ ( reqs[r].kind = "idle" /\ reqs'[r].kind = "login" /\ reqs'[r].pc = "done" )
           => /\ reqs'[r].res.status # 200
              /\ HoldersOf(OrNull(reqs'[r].body, "email")) = {}
                 \/ ~Truthy(reqs'[r].body, "password")
        /\ ( reqs[r].kind = "login" /\ reqs[r].pc = "select" /\ reqs'[r].pc # "select" )
           => IF HoldersOf(reqs[r].body.email) = {}
                THEN reqs'[r].pc = "done" /\ reqs'[r].res.status # 200
                ELSE /\ reqs'[r].pc = "compare"
                     /\ reqs'[r].loc.user \in Rows(users)
                     /\ reqs'[r].loc.user.email = reqs[r].body.email
        /\ ( reqs[r].kind = "login" /\ reqs[r].pc = "compare" /\ reqs'[r].pc = "done" )
           => LET stored == reqs[r].loc.user
                  res == reqs'[r].res IN
              /\ res.status = 200
                   <=> stored.password_hash = BcryptHash(reqs[r].body.password)
              /\ res.status = 200 =>
                   /\ res.data.token.claims =
                        [user_id |-> stored.user_id, email |-> stored.email,
                         name |-> stored.name, user_role |-> stored.user_role]
                   /\ res.data.user = res.data.token.claims
                   /\ res.data.token.sig = "valid"
                   /\ res.data.token.exp = now + ExpiresIn ]_vars

\* A login has succeeded for a user registered in this run.
C9_Witness ==
  \E r \in ReqIds :
    /\ reqs[r].kind = "login" /\ Done(r) /\ reqs[r].res.status = 200
    /\ reqs[r].res.data.user.email = "dan@example.com"
    /\ \E u \in DOMAIN users : ClaimsOf(u) = reqs[r].res.data.token.claims

\* A finished login with a non-empty email and password.
FinishedLogin(r) ==
  /\ reqs[r].kind = "login" /\ Done(r)
  /\ Truthy(reqs[r].body, "email") /\ Truthy(reqs[r].body, "password")

\* The login in slot r found no user with its email.
UnknownEmail(r) == FinishedLogin(r) /\ ~Has(reqs[r].loc, "user")

\* The login in slot r found a user and the password did not match.
WrongPassword(r) ==
  /\ FinishedLogin(r) /\ Has(reqs[r].loc, "user")
  /\ ~BcryptCompare(reqs[r].body.password, reqs[r].loc.user.password_hash)

\* C10: a login with an unknown email and a login with a known email and a wrong
\* password get the same response (status, message and body).
C10_NoAccountLeak ==
  \A r1, r2 \in ReqIds : UnknownEmail(r1) /\ WrongPassword(r2) => reqs[r1].res = reqs[r2].res

\* Both kinds of failed login have been answered.
C10_Witness ==
  \E r1, r2 \in ReqIds :
    /\ UnknownEmail(r1) /\ WrongPassword(r2)
    /\ reqs[r1].res.status = 400 /\ reqs[r1].res.message = "Invalid credentials"


(* ------------------- tasks: update, delete, comment -------------------- *)

TaskCallers == {"user1", "user3"}

TaskIds == {"task1", "task3"}

PutTaskBodies == { [status |-> "completed"], [title |-> "Renamed", due_date |-> Null] }

CommentBodies == { [comment_text |-> "On it"] }

NextTasks ==
  \/ \E r \in ReqIds, u \in TaskCallers, t \in TaskIds, body \in PutTaskBodies :
       PutTaskArrive(r, AsUser(u), t, body)
  \/ \E r \in ReqIds : PutTaskSelect(r)
  \/ \E r \in ReqIds : PutTaskUpdate(r)
  \/ \E r \in ReqIds : PutTaskEmit(r)
  \/ \E r \in ReqIds, u \in TaskCallers, t \in TaskIds : DeleteTaskArrive(r, AsUser(u), t)
  \/ \E r \in ReqIds : DeleteTaskSelect(r)
  \/ \E r \in ReqIds : DeleteTaskSubtasks(r)
  \/ \E r \in ReqIds : DeleteTaskComments(r)
  \/ \E r \in ReqIds : DeleteTaskAssignees(r)
  \/ \E r \in ReqIds : DeleteTaskLabels(r)
  \/ \E r \in ReqIds : DeleteTaskRow(r)
  \/ \E r \in ReqIds : DeleteTaskEmit(r)
  \/ \E r \in ReqIds, u \in TaskCallers, t \in TaskIds, body \in CommentBodies :
       PostCommentArrive(r, AsUser(u), t, body)
  \/ \E r \in ReqIds : PostCommentInsert(r)
  \/ \E r \in ReqIds : PostCommentEmit(r)

SpecTasks == Init /\ [][NextTasks]_vars

(* ========================= the claims: tasks =========================== *)

\* The envelopes the request in slot r had io.emit send.
EmittedBy(r) == {i \in 1..Len(emitted) : emitted[i].by = r}

\* C1: a PUT or DELETE /api/tasks/:id that found the task succeeds iff the caller is
\* the task's creator; any other caller is answered 403, after the one SELECT and
\* nothing else (no write to the task or its child rows), and no event is published.
C1_OwnerOnly ==
  \A r \in ReqIds :
    ( reqs[r].kind \in {"put_task", "delete_task"} /\ Done(r) /\ Has(reqs[r].loc, "found") )
    => LET owner == reqs[r].user.user_id = reqs[r].loc.found.creator_id IN
       /\ reqs[r].res.status = 200 <=> owner
       /\ ~owner => /\ reqs[r].res.status = 403
                    /\ reqs[r].queries = 1
                    /\ EmittedBy(r) = {}

\* The 403 side of C1 alone, which the code keeps.
C1_ForbiddenSide ==
  \A r \in ReqIds :
    ( /\ reqs[r].kind \in {"put_task", "delete_task"} /\ Done(r) /\ Has(reqs[r].loc, "found")
      /\ reqs[r].user.user_id # reqs[r].loc.found.creator_id )
    => reqs[r].res.status = 403 /\ reqs[r].queries = 1 /\ EmittedBy(r) = {}

\* The rows of the five tables that carry task id.
RowsOfTask(id) ==
  {x \in Rows(tasks) \cup Rows(subtasks) \cup Rows(task_comments)
         \cup Rows(task_assignees) \cup Rows(task_labels) : x.task_id = id}

\* C7: once a DELETE /api/tasks/:id has answered success, tasks, subtasks,
\* task_comments, task_assignees and task_labels hold no row with that task_id,
\* however the deletion interleaves with comment requests on the same task.
C7_DeleteLeavesNoRows ==
  \A r \in ReqIds :
    ( reqs[r].kind = "delete_task" /\ Done(r) /\ reqs[r].res.status = 200 )
    => RowsOfTask(reqs[r].params.task_id) = {}

\* A deletion has succeeded although a comment request that arrived after it had its
\* row stored on the same task.
C7_Witness ==
  \E r, c \in ReqIds :
    /\ reqs[r].kind = "delete_task" /\ Done(r) /\ reqs[r].res.status = 200
    /\ r < c /\ reqs[c].kind = "post_comment" /\ Done(c) /\ reqs[c].res.status = 201
    /\ reqs[c].params.task_id = reqs[r].params.task_id

\* In this step the request in slot r runs the query after which it publishes, and
\* the query changes the row the event is about: the task or comment is inserted,
\* the stored task is updated, the stored task is deleted.
MutatesRow(r) ==
  LET q == reqs[r] IN
  /\ q.kind = "post_task" => q.loc.task_id \in DOMAIN tasks'
  /\ q.kind = "post_comment" => /\ q.loc.comment_id \notin DOMAIN task_comments
                                /\ q.loc.comment_id \in DOMAIN task_comments'
  /\ q.kind = "put_task" => /\ q.params.task_id \in DOMAIN tasks
                            /\ q.params.task_id \in DOMAIN tasks'
  /\ q.kind = "delete_task" => /\ q.params.task_id \in DOMAIN tasks
                               /\ q.params.task_id \notin DOMAIN tasks'

\* C13: an event goes out only in the publishing step of a request, and a request
\* reaches that step only by a query that inserted, updated or deleted the row the
\* event is about, however a PUT interleaves with a DELETE of the same task.
C13_EventAfterMutation ==
  [][ /\ emitted' # emitted => \E r \in ReqIds : reqs[r].pc = "emit" /\ Done(r)'
      /\ \A r \in ReqIds :
           ( reqs[r].pc # "emit" /\ reqs'[r].pc = "emit" ) => MutatesRow(r) ]_vars

\* The PUTs in slots a and b have both updated the same stored task and the row now
\* stored is the one b's UPDATE returned, not a's: the UPDATE of a completed before
\* the UPDATE of b.
UpdatedBefore(a, b) ==
  /\ reqs[a].kind = "put_task" /\ reqs[b].kind = "put_task"
  /\ reqs[a].params.task_id = reqs[b].params.task_id
  /\ reqs[a].params.task_id \in DOMAIN tasks
  /\ Has(reqs[a].loc, "updated") /\ reqs[a].loc.updated # <<>>
  /\ Has(reqs[b].loc, "updated")
  /\ reqs[b].loc.updated = <<tasks[reqs[b].params.task_id]>>
  /\ reqs[a].loc.updated # reqs[b].loc.updated

\* C14: events go out in the order in which their mutations completed in storage;
\* for two updates of one task: when the UPDATE of request a completed before the
\* UPDATE of request b, the event of b is not published while the event of a is
\* still to be published.
C14_EventsInMutationOrder ==
  [][ \A a, b \in ReqIds :
        ( UpdatedBefore(a, b) /\ reqs[a].pc = "emit" /\ reqs[b].pc = "emit" )
        => ~( emitted' # emitted /\ Done(b)' ) ]_vars


(* ----------------------------- notifications --------------------------- *)

NotificationCallers == {"user1", "user2", "user3"}

NotificationIds == {"notif1", "notif5"}

NotificationBodies == { [is_read |-> TRUE], [is_read |-> FALSE], Empty }

NextNotifications ==
  \/ \E r \in ReqIds, u \in NotificationCallers, n \in NotificationIds,
        body \in NotificationBodies : PutNotificationArrive(r, AsUser(u), n, body)
  \/ \E r \in ReqIds : PutNotificationSelect(r)
  \/ \E r \in ReqIds : PutNotificationUpdate(r)
  \/ \E r \in ReqIds, u \in NotificationCallers : GetNotificationsArrive(r, AsUser(u))
  \/ \E r \in ReqIds : GetNotificationsSelect(r)

SpecNotifications == Init /\ [][NextNotifications]_vars

(* ===================== the claims: notifications ======================= *)

\* In this step the PUT /api/notifications/:id in slot r, sent by the recipient of
\* notification n, runs its UPDATE of n.
RecipientUpdates(r, n) ==
  /\ reqs[r].kind = "put_notification" /\ reqs[r].pc = "update" /\ reqs'[r].pc = "done"
  /\ reqs[r].params.notification_id = n
  /\ reqs[r].user.user_id = notifications[n].user_id

\* C2: the stored is_read of a notification changes only in the UPDATE of a PUT
\* /api/notifications/:id whose caller is the notification's recipient; a PUT by any
\* other authenticated caller is answered 403 and leaves the table as it was.
C2_RecipientOnly ==
  [][ /\ \A n \in DOMAIN notifications :
           notifications'[n].is_read # notifications[n].is_read
           => \E r \in ReqIds : RecipientUpdates(r, n)
      /\ \A r \in ReqIds :
           ( /\ reqs[r].kind = "put_notification" /\ ~Done(r) /\ reqs'[r].pc # reqs[r].pc
             /\ reqs[r].params.notification_id \in DOMAIN notifications
             /\ reqs[r].user.user_id #
                  notifications[reqs[r].params.notification_id].user_id )
           => /\ reqs'[r].pc = "done"
              /\ reqs'[r].res.status = 403
              /\ notifications' = notifications ]_vars

\* The recipient has marked notif1 read, and another caller was refused on it.
C2_Witness ==
  /\ notifications["notif1"].is_read
  /\ \E r \in ReqIds :
       /\ reqs[r].kind = "put_notification" /\ Done(r) /\ reqs[r].res.status = 403
       /\ reqs[r].params.notification_id = "notif1"
       /\ Has(reqs[r].body, "is_read") /\ ~reqs[r].body.is_read

\* In this step the PUT in slot s, sent by the recipient of notification n with
\* is_read = v, runs its UPDATE.
StoresRead(s, n, v) ==
  /\ RecipientUpdates(s, n)
  /\ Has(reqs[s].body, "is_read") /\ reqs[s].body.is_read = v

\* C11: a PUT /api/notifications/:id by the recipient carrying is_read = v succeeds
\* and leaves v stored, whatever was stored before; sent again with the same v, it
\* succeeds again and the table is as the first one left it.
C11_SameValueTwice ==
  [][ \A s \in ReqIds, n \in DOMAIN notifications, v \in BOOLEAN :
        StoresRead(s, n, v)
        => /\ reqs'[s].res.status = 200
           /\ notifications'[n].is_read = v
           /\ notifications[n].is_read = v => notifications' = notifications ]_vars

\* The recipient of notif1 (seeded unread) has sent is_read = true twice; both were
\* answered 200 and notif1 is stored read.
C11_Witness ==
  /\ ~SeedNotifications["notif1"].is_read
  /\ notifications["notif1"].is_read
  /\ \A r \in ReqIds :
       /\ reqs[r].kind = "put_notification" /\ Done(r) /\ reqs[r].res.status = 200
       /\ reqs[r].params.notification_id = "notif1"
       /\ reqs[r].queries = 2
       /\ reqs[r].body = [is_read |-> TRUE]


(* ------------------------------- realtime ------------------------------ *)

\* What a handshake carries in auth.token and in the query parameter token: nothing,
\* a valid token, an expired one, one signed with another secret.
HandshakeInputs ==
  { [auth |-> <<>>, query |-> <<>>],
    [auth |-> <<TokenOf("user2", now)>>, query |-> <<>>],
    [auth |-> <<>>, query |-> <<TokenOf("user2", now)>>],
    [auth |-> <<TokenOf("user3", now)>>, query |-> <<ForgedToken("user3", now)>>],
    [auth |-> <<ForgedToken("user2", now)>>, query |-> <<TokenOf("user2", now)>>],
    [auth |-> <<TokenOf("user2", now - ExpiresIn)>>, query |-> <<>>] }

NextRealtime ==
  \/ \E c \in ConnIds, h \in HandshakeInputs : Handshake(c, h.auth, h.query)
  \/ \E c \in ConnIds : Disconnect(c)
  \/ \E r \in ReqIds, body \in CommentBodies :
       PostCommentArrive(r, AsUser("user1"), "task3", body)
  \/ \E r \in ReqIds : PostCommentInsert(r)
  \/ \E r \in ReqIds : PostCommentEmit(r)

SpecRealtime == Init /\ [][NextRealtime]_vars

(* ======================== the claims: realtime ========================= *)

\* The token the handshake of connection k is judged by: auth.token, or the query
\* parameter when auth.token is absent.
TakenToken(k) == IF k.auth # <<>> THEN k.auth ELSE k.query

\* That token was there, signed with the server's secret and not expired at the
\* handshake.
PassedVerification(k) ==
  /\ TakenToken(k) # <<>>
  /\ TakenToken(k)[1].sig = "valid"
  /\ k.at < TakenToken(k)[1].exp

\* Connection c is or was registered.
Registered(c) == sockets[c].state \in {"connected", "disconnected"}

\* C3: a connection is registered only if the token taken from auth.token, or from
\* the query parameter when auth.token is absent, passed verification, and then under
\* that token's identity; a handshake whose token is missing or fails verification is
\* rejected, and a connection that was never registered has received no event.
C3_OnlyVerifiedConnect ==
  \A c \in ConnIds :
    /\ Registered(c) => /\ PassedVerification(sockets[c])
                        /\ sockets[c].user = TakenToken(sockets[c])[1].claims
    /\ ( sockets[c].state # "none" /\ ~PassedVerification(sockets[c]) )
         => sockets[c].state = "rejected"
    /\ ~Registered(c) => sockets[c].observed = <<>>

\* An event went out to a connection admitted on its query token, after a handshake
\* with a forged auth.token and a valid query token had been rejected.
C3_Witness ==
  \E c, d \in ConnIds :
    /\ sockets[c].state = "rejected" /\ sockets[c].auth # <<>>
    /\ sockets[c].query # <<>> /\ sockets[c].query[1].sig = "valid"
    /\ sockets[d].state = "connected" /\ sockets[d].auth = <<>>
    /\ Len(sockets[d].observed) > 0
    /\ c < d

\* emitted[from+1 .. to].
Slice(from, to) == [i \in 1..(to - from) |-> emitted[from + i]]

\* C6: a connection observes exactly the envelopes emitted while it is registered, in
\* order: all of them while it stays connected, whichever task they are about, and
\* none emitted after it disconnected.
C6_EveryConnectionObservesAll ==
  \A c \in ConnIds :
    /\ sockets[c].state = "connected"
         => sockets[c].observed = Slice(sockets[c].since, Len(emitted))
    /\ sockets[c].state = "disconnected"
         => sockets[c].observed = Slice(sockets[c].since, sockets[c].until)

\* Two events about task3 went out, which user2 neither created nor is assigned to:
\* a connection of user2 saw both; another connection disconnected after the first
\* event and saw only that one.
C6_Witness ==
  \E c, d \in ConnIds :
    /\ Len(emitted) = 2
    /\ sockets[c].state = "connected" /\ sockets[c].user.user_id = "user2"
    /\ sockets[c].observed = emitted
    /\ \A i \in 1..2 : emitted[i].data.task_id = "task3"
    /\ emitted[1] # emitted[2]
    /\ "user2" # tasks["task3"].creator_id
    /\ ~\E a \in DOMAIN task_assignees :
          /\ task_assignees[a].task_id = "task3"
          /\ task_assignees[a].user_id = "user2"
    /\ sockets[d].state = "disconnected" /\ sockets[d].until = 1
    /\ sockets[d].observed = <<emitted[1]>>


(* ------------------- the authenticated REST endpoints ------------------ *)

\* The Authorization header of a request made for user u: absent, a scheme with no
\* token, a token signed with another secret, an expired token, a valid token.
AuthnHeaders(u) ==
  { <<>>, <<"Bearer">>, Bearer(ForgedToken(u, now)),
    Bearer(TokenOf(u, now - ExpiresIn)), AsUser(u) }

PostTaskBody ==
  [title |-> "Plan", project_id |-> "project1", subtasks |-> <<[title |-> "Step"]>>,
   assignees |-> <<"user2">>, labels |-> <<"label1">>]

NextAuthn ==
  \/ \E r \in ReqIds, h \in AuthnHeaders("user3") : GetProfileArrive(r, h)
  \/ \E r \in ReqIds : GetProfileSelect(r)
  \/ \E r \in ReqIds, h \in AuthnHeaders("user3") :
       PutProfileArrive(r, h, [name |-> "Cindy L", email |-> "cindy@example.com"])
  \/ \E r \in ReqIds : PutProfileUpdate(r)
  \/ \E r \in ReqIds : PutProfileSelect(r)
  \/ \E r \in ReqIds, h \in AuthnHeaders("user3") : GetDashboardArrive(r, h)
  \/ \E r \in ReqIds : GetDashboardStats(r)
  \/ \E r \in ReqIds : GetDashboardDeadlines(r)
  \/ \E r \in ReqIds, h \in AuthnHeaders("user3") : PostTaskArrive(r, h, PostTaskBody)
  \/ \E r \in ReqIds : PostTaskInsertTask(r)
  \/ \E r \in ReqIds : PostTaskInsertSubtask(r)
  \/ \E r \in ReqIds : PostTaskInsertAssignee(r)
  \/ \E r \in ReqIds : PostTaskInsertLabel(r)
  \/ \E r \in ReqIds : PostTaskEmit(r)
  \/ \E r \in ReqIds, h \in AuthnHeaders("user3") : GetTasksArrive(r, h, [status |-> "pending"])
  \/ \E r \in ReqIds : GetTasksSelect(r)
  \/ \E r \in ReqIds, h \in AuthnHeaders("user3") : GetTaskArrive(r, h, "task3")
  \/ \E r \in ReqIds : GetTaskSelect(r)
  \/ \E r \in ReqIds : GetTaskChildren(r)
  \/ \E r \in ReqIds, h \in AuthnHeaders("user3") :
       PutTaskArrive(r, h, "task3", [status |-> "completed"])
  \/ \E r \in ReqIds : PutTaskSelect(r)
  \/ \E r \in ReqIds : PutTaskUpdate(r)
  \/ \E r \in ReqIds : PutTaskEmit(r)
  \/ \E r \in ReqIds, h \in AuthnHeaders("user3") : DeleteTaskArrive(r, h, "task3")
  \/ \E r \in ReqIds : DeleteTaskSelect(r)
  \/ \E r \in ReqIds : DeleteTaskSubtasks(r)
  \/ \E r \in ReqIds : DeleteTaskComments(r)
  \/ \E r \in ReqIds : DeleteTaskAssignees(r)
  \/ \E r \in ReqIds : DeleteTaskLabels(r)
  \/ \E r \in ReqIds : DeleteTaskRow(r)
  \/ \E r \in ReqIds : DeleteTaskEmit(r)
  \/ \E r \in ReqIds, h \in AuthnHeaders("user3"), body \in CommentBodies :
       PostCommentArrive(r, h, "task3", body)
  \/ \E r \in ReqIds : PostCommentInsert(r)
  \/ \E r \in ReqIds : PostCommentEmit(r)
  \/ \E r \in ReqIds, h \in AuthnHeaders("user1") : GetNotificationsArrive(r, h)
  \/ \E r \in ReqIds : GetNotificationsSelect(r)
  \/ \E r \in ReqIds, h \in AuthnHeaders("user1") :
       PutNotificationArrive(r, h, "notif5", [is_read |-> TRUE])
  \/ \E r \in ReqIds : PutNotificationSelect(r)
  \/ \E r \in ReqIds : PutNotificationUpdate(r)
  \/ \E r \in ReqIds, h \in AuthnHeaders("user3") : PostProjectArrive(r, h, [title |-> "Launch"])
  \/ \E r \in ReqIds : PostProjectInsert(r)
  \/ \E r \in ReqIds, h \in AuthnHeaders("user3") : GetProjectArrive(r, h, "project1")
  \/ \E r \in ReqIds : GetProjectSelect(r)
  \/ \E r \in ReqIds : GetProjectTasks(r)

SpecAuthn == Init /\ [][NextAuthn]_vars

(* ==================== the claims: authentication ======================= *)

\* The request in slot r is to an endpoint that requires authentication.
NeedsToken(r) == reqs[r].kind \notin {"idle", "register", "login", "get_labels"}

\* The bearer token the request carries, if any.
Presented(q) == IF Len(q.hdr) >= 2 THEN <<q.hdr[2]>> ELSE <<>>

\* The request in slot r was answered `res` before its handler body: no storage
\* query ran for it and it published no event.
TurnedAway(r, res) ==
  /\ reqs[r].pc = "done"
  /\ reqs[r].res = res
  /\ reqs[r].queries = 0
  /\ EmittedBy(r) = {}

\* C5: on every endpoint that requires authentication a request with no bearer token
\* is answered 401 and one whose token fails verification (bad signature or expired)
\* is answered 403; in both cases no storage read or write is made for it and no
\* event is published.
C5_RejectedBeforeHandler ==
  \A r \in ReqIds :
    NeedsToken(r) =>
      LET q == reqs[r]
          tok == Presented(q) IN
      /\ tok = <<>> => TurnedAway(r, Res(401, "Token missing", Empty))
      /\ ( tok # <<>> /\ ~(tok[1].sig = "valid" /\ q.at < tok[1].exp) )
           => TurnedAway(r, Res(403, "Invalid token", Empty))

\* A DELETE of task3 with an expired token of its creator was answered 403 and a POST
\* /api/tasks without token 401, and the tables are as seeded.
C5_Witness ==
  \E r, s \in ReqIds :
    /\ reqs[r].kind = "delete_task" /\ reqs[r].res.status = 403
    /\ Presented(reqs[r]) # <<>> /\ Presented(reqs[r])[1].sig = "valid"
    /\ reqs[r].params.task_id = "task3"
    /\ Presented(reqs[r])[1].claims.user_id = tasks["task3"].creator_id
    /\ reqs[s].kind = "post_task" /\ reqs[s].res.status = 401
    /\ tasks = SeedTasks /\ subtasks = SeedSubtasks /\ emitted = <<>>

(* ----------------------------- token expiry ---------------------------- *)

\* The tokens register and login have answered with.
IssuedTokens ==
  { reqs[r].res.data.token :
      r \in {x \in ReqIds : /\ reqs[x].kind \in {"register", "login"}
                            /\ reqs[x].res.status \in {200, 201}} }

NextExpiry ==
  \/ \E r \in ReqIds :
       RegisterArrive(r, [name |-> "Dan", email |-> "dan@example.com", password |-> "pw1"])
  \/ \E r \in ReqIds : RegisterSelect(r)
  \/ \E r \in ReqIds : RegisterInsert(r)
  \/ \E r \in ReqIds : LoginArrive(r, [email |-> "dan@example.com", password |-> "pw1"])
  \/ \E r \in ReqIds : LoginSelect(r)
  \/ \E r \in ReqIds : LoginCompare(r)
  \/ \E r \in ReqIds, tok \in IssuedTokens : GetProfileArrive(r, Bearer(tok))
  \/ \E r \in ReqIds : GetProfileSelect(r)
  \/ \E c \in ConnIds, tok \in IssuedTokens : Handshake(c, <<tok>>, <<>>)
  \/ \E c \in ConnIds, tok \in IssuedTokens : Handshake(c, <<>>, <<tok>>)
  \/ Tick

SpecExpiry == Init /\ [][NextExpiry]_vars

\* C4: a request or a handshake whose token has reached its expiry is rejected, valid
\* signature or not (403 before the handler body; the connection is not registered),
\* and every token register or login answers with is signed with the server's secret
\* and expires one day after it was issued, which is between the request's arrival
\* and now.
C4_ExpiredRejected ==
  /\ \A r \in ReqIds :
       ( NeedsToken(r) /\ Presented(reqs[r]) # <<>>
         /\ Presented(reqs[r])[1].exp <= reqs[r].at )
         => TurnedAway(r, Res(403, "Invalid token", Empty))
  /\ \A c \in ConnIds :
       ( sockets[c].state # "none" /\ TakenToken(sockets[c]) # <<>>
         /\ TakenToken(sockets[c])[1].exp <= sockets[c].at )
         => sockets[c].state = "rejected" /\ sockets[c].observed = <<>>
  /\ \A r \in ReqIds :
       ( reqs[r].kind \in {"register", "login"} /\ reqs[r].res.status \in {200, 201} )
         => /\ reqs[r].res.data.token.sig = "valid"
            /\ reqs[r].res.data.token.exp >= reqs[r].at + ExpiresIn
            /\ reqs[r].res.data.token.exp <= now + ExpiresIn

\* The token a registration answered with was admitted at a handshake, and a day
\* later the same token was refused both at a handshake and by GET /api/users/profile.
C4_Witness ==
  \E r, s \in ReqIds, c, d \in ConnIds :
    /\ reqs[r].kind = "register" /\ reqs[r].res.status = 201
    /\ reqs[s].kind = "get_profile" /\ reqs[s].res.status = 403
    /\ Presented(reqs[s]) = <<reqs[r].res.data.token>>
    /\ sockets[c].state = "connected" /\ sockets[c].auth = <<reqs[r].res.data.token>>
    /\ sockets[d].state = "rejected" /\ sockets[d].query = <<reqs[r].res.data.token>>


(* ------------------------- rejected requests --------------------------- *)

\* A task id and a project id no row has.
NoSuchId == "nope"

\* Bodies of POST /api/tasks: complete, without title, with a subtask without title.
PostTaskBodies ==
  { PostTaskBody,
    [description |-> "no title"],
    [title |-> "Plan", subtasks |-> <<[title |-> "Step"], [title |-> ""]>>,
     assignees |-> <<"user2">>, labels |-> <<"label1">>] }

\* Requests of user3, the creator of task3 and of nothing else, with bodies, ids and
\* targets that the handlers accept and that they reject.
NextRejections ==
  \/ \E r \in ReqIds, body \in RegisterBodies : RegisterArrive(r, body)
  \/ \E r \in ReqIds : RegisterSelect(r)
  \/ \E r \in ReqIds : RegisterInsert(r)
  \/ \E r \in ReqIds, body \in LoginBodies : LoginArrive(r, body)
  \/ \E r \in ReqIds : LoginSelect(r)
  \/ \E r \in ReqIds : LoginCompare(r)
  \/ \E r \in ReqIds, body \in {[name |-> "Cindy L", email |-> "cindy@example.com"],
                               [name |-> "Cindy L"]} :
       PutProfileArrive(r, AsUser("user3"), body)
  \/ \E r \in ReqIds : PutProfileUpdate(r)
  \/ \E r \in ReqIds : PutProfileSelect(r)
  \/ \E r \in ReqIds, body \in PostTaskBodies : PostTaskArrive(r, AsUser("user3"), body)
  \/ \E r \in ReqIds : PostTaskInsertTask(r)
  \/ \E r \in ReqIds : PostTaskInsertSubtask(r)
  \/ \E r \in ReqIds : PostTaskInsertAssignee(r)
  \/ \E r \in ReqIds : PostTaskInsertLabel(r)
  \/ \E r \in ReqIds : PostTaskEmit(r)
  \/ \E r \in ReqIds, t \in {"task3", NoSuchId} : GetTaskArrive(r, AsUser("user3"), t)
  \/ \E r \in ReqIds : GetTaskSelect(r)
  \/ \E r \in ReqIds : GetTaskChildren(r)
  \/ \E r \in ReqIds, t \in {"task3", "task1", NoSuchId} :
       PutTaskArrive(r, AsUser("user3"), t, [status |-> "completed"])
  \/ \E r \in ReqIds : PutTaskSelect(r)
  \/ \E r \in ReqIds : PutTaskUpdate(r)
  \/ \E r \in ReqIds : PutTaskEmit(r)
  \/ \E r \in ReqIds, t \in {"task3", "task1", NoSuchId} :
       DeleteTaskArrive(r, AsUser("user3"), t)
  \/ \E r \in ReqIds : DeleteTaskSelect(r)
  \/ \E r \in ReqIds : DeleteTaskSubtasks(r)
  \/ \E r \in ReqIds : DeleteTaskComments(r)
  \/ \E r \in ReqIds : DeleteTaskAssignees(r)
  \/ \E r \in ReqIds : DeleteTaskLabels(r)
  \/ \E r \in ReqIds : DeleteTaskRow(r)
  \/ \E r \in ReqIds : DeleteTaskEmit(r)
  \/ \E r \in ReqIds, body \in {[comment_text |-> "On it"], [comment_text |-> ""]} :
       PostCommentArrive(r, AsUser("user3"), "task3", body)
  \/ \E r \in ReqIds : PostCommentInsert(r)
  \/ \E r \in ReqIds : PostCommentEmit(r)
  \/ \E r \in ReqIds, n \in {"notif1", "notif5", NoSuchId} :
       PutNotificationArrive(r, AsUser("user1"), n, [is_read |-> TRUE])
  \/ \E r \in ReqIds : PutNotificationSelect(r)
  \/ \E r \in ReqIds : PutNotificationUpdate(r)
  \/ \E r \in ReqIds, body \in {[title |-> "Launch"], [description |-> "no title"]} :
       PostProjectArrive(r, AsUser("user3"), body)
  \/ \E r \in ReqIds : PostProjectInsert(r)
  \/ \E r \in ReqIds, p \in {"project1", NoSuchId} : GetProjectArrive(r, AsUser("user3"), p)
  \/ \E r \in ReqIds : GetProjectSelect(r)
  \/ \E r \in ReqIds : GetProjectTasks(r)

SpecRejections == Init /\ [][NextRejections]_vars

(* ====================== the claims: rejections ========================= *)

\* InvalidInput, Forbidden, NotFound.
Rejections == {400, 403, 404}

\* In this step the request in slot r is answered with a rejection.
RejectedNow(r) == reqs[r].res.status = 0 /\ reqs'[r].res.status \in Rejections

\* The handlers whose first storage query is a write.
WriteFirst == {"put_profile", "post_task", "post_comment", "post_project"}

\* C12: the step that answers a request 400, 403 or 404 leaves all tables and the
\* published events as they were, and nothing the request did before has written or
\* published: it had run at most one query, a request's first query writes only in
\* the handlers that reject at the handler boundary alone, and a step without query
\* writes nothing. So a POST /api/tasks without title, or with a subtask without
\* title, inserts no row.
C12_RejectedNoEffect ==
  [][ \A r \in ReqIds :
        /\ RejectedNow(r)
           => /\ UNCHANGED <<store, client, tables, emitted>>
              /\ reqs[r].queries <= 1
              /\ EmittedBy(r) = {}
              /\ reqs'[r].kind \in WriteFirst => reqs[r].kind = "idle"
        /\ ( reqs[r].queries = 0 /\ reqs'[r].queries > 0 /\ tables' # tables )
           => reqs'[r].kind \in WriteFirst
        /\ ( reqs'[r] # reqs[r] /\ reqs'[r].queries = reqs[r].queries )
           => tables' = tables ]_vars

\* A POST /api/tasks whose second subtask has no title was answered 400 and a DELETE
\* of another user's task 403; the tables are as seeded and nothing was published.
C12_Witness ==
  \E r, s \in ReqIds :
    /\ reqs[r].kind = "post_task" /\ reqs[r].res.status = 400
    /\ Truthy(reqs[r].body, "title") /\ Len(reqs[r].body.subtasks) = 2
    /\ reqs[s].kind = "delete_task" /\ reqs[s].res.status = 403
    /\ tasks = SeedTasks /\ subtasks = SeedSubtasks /\ task_assignees = SeedAssignees
    /\ task_labels = SeedTaskLabels /\ emitted = <<>>


(* --------------------------- failed deliveries ------------------------- *)

NextDelivery ==
  \/ \E c \in ConnIds : Handshake(c, <<TokenOf("user2", now)>>, <<>>)
  \/ \E c \in ConnIds : TransportFails(c)
  \/ \E r \in ReqIds : PostTaskArrive(r, AsUser("user3"), PostTaskBody)
  \/ \E r \in ReqIds : PostTaskInsertTask(r)
  \/ \E r \in ReqIds : PostTaskInsertSubtask(r)
  \/ \E r \in ReqIds : PostTaskInsertAssignee(r)
  \/ \E r \in ReqIds : PostTaskInsertLabel(r)
  \/ \E r \in ReqIds : PostTaskEmit(r)
  \/ \E r \in ReqIds, body \in CommentBodies :
       PostCommentArrive(r, AsUser("user3"), "task3", body)
  \/ \E r \in ReqIds : PostCommentInsert(r)
  \/ \E r \in ReqIds : PostCommentEmit(r)

SpecDelivery == Init /\ [][NextDelivery]_vars

\* C15: in the step in which a request publishes, every connection whose transport
\* works observes the event, also when the transport of another connection has
\* failed (that one observes nothing), and the request is answered its success
\* response.
C15_FailedDeliveryIsolated ==
  [][ \A r \in ReqIds :
        ( reqs[r].pc = "emit" /\ reqs'[r] # reqs[r] )
        => /\ emitted' # emitted
           /\ \A c \in ConnIds :
                /\ sockets[c].state = "connected"
                     => sockets'[c].observed =
                          Append(sockets[c].observed, emitted'[Len(emitted')])
                /\ sockets[c].state = "broken"
                     => sockets'[c].observed = sockets[c].observed
           /\ Done(r)' /\ reqs'[r].res.status \in {200, 201}
           /\ emitted'[Len(emitted')].by = r ]_vars

\* A task was created and answered 201 after the transport of one connection had
\* failed; the other connection observed task_created, the failed one did not.
C15_Witness ==
  \E r \in ReqIds, c, d \in ConnIds :
    /\ reqs[r].kind = "post_task" /\ reqs[r].res.status = 201
    /\ EmittedBy(r) = {Len(emitted)}
    /\ sockets[c].state = "broken" /\ sockets[c].until < Len(emitted)
    /\ sockets[c].observed = Slice(sockets[c].since, sockets[c].until)
    /\ sockets[d].state = "connected" /\ sockets[d].since <= sockets[c].until
    /\ sockets[d].observed = Slice(sockets[d].since, Len(emitted))


(* ------------------- tasks: create, list, read, delete ----------------- *)

\* The ids of the tasks POST /api/tasks has answered with.
CreatedIds ==
  { reqs[r].res.data.task.task_id :
      r \in {x \in ReqIds : reqs[x].kind = "post_task" /\ reqs[x].res.status = 201} }

NextTaskLists ==
  \/ \E r \in ReqIds, body \in {[title |-> "Solo"], PostTaskBody} :
       PostTaskArrive(r, AsUser("user1"), body)
  \/ \E r \in ReqIds : PostTaskInsertTask(r)
  \/ \E r \in ReqIds : PostTaskInsertSubtask(r)
  \/ \E r \in ReqIds : PostTaskInsertAssignee(r)
  \/ \E r \in ReqIds : PostTaskInsertLabel(r)
  \/ \E r \in ReqIds : PostTaskEmit(r)
  \/ \E r \in ReqIds, u \in {"user1", "user2", "user3"},
        query \in {Empty, [status |-> "pending"]} : GetTasksArrive(r, AsUser(u), query)
  \/ \E r \in ReqIds : GetTasksSelect(r)
  \/ \E r \in ReqIds, u \in {"user1", "user3"}, t \in CreatedIds \cup {"task3"} :
       GetTaskArrive(r, AsUser(u), t)
  \/ \E r \in ReqIds : GetTaskSelect(r)
  \/ \E r \in ReqIds : GetTaskChildren(r)
  \/ \E r \in ReqIds, u \in {"user1", "user3"}, t \in CreatedIds \cup {"task3"} :
       DeleteTaskArrive(r, AsUser(u), t)
  \/ \E r \in ReqIds : DeleteTaskSelect(r)
  \/ \E r \in ReqIds : DeleteTaskSubtasks(r)
  \/ \E r \in ReqIds : DeleteTaskComments(r)
  \/ \E r \in ReqIds : DeleteTaskAssignees(r)
  \/ \E r \in ReqIds : DeleteTaskLabels(r)
  \/ \E r \in ReqIds : DeleteTaskRow(r)
  \/ \E r \in ReqIds : DeleteTaskEmit(r)

SpecTaskLists == Init /\ [][NextTaskLists]_vars

(* ======================= the claims: task lists ======================== *)

\* In this step the GET /api/tasks in slot r runs its query and answers.
ListsNow(r) == reqs[r].kind = "get_tasks" /\ reqs[r].pc = "select" /\ Done(r)'

\* The ids of the tasks in the answer of the GET /api/tasks in slot r.
ListedIds(r) == {x.task.task_id : x \in reqs[r].res.data.tasks}

\* The stored tasks user u created or is assigned to.
OwnTasks(u) ==
  {t \in DOMAIN tasks :
     \/ tasks[t].creator_id = u
     \/ \E a \in Rows(task_assignees) : a.task_id = t /\ a.user_id = u}

\* C16: GET /api/tasks answers with exactly the stored tasks the caller created or
\* is assigned to, and with a status parameter s exactly those of them whose status
\* is s.
C16_ListExactly ==
  [][ \A r \in ReqIds :
        ListsNow(r)
        => ListedIds(r)' =
             {t \in OwnTasks(reqs[r].user.user_id) :
                Truthy(reqs[r].params, "status") => tasks[t].status = reqs[r].params.status}
    ]_vars

\* C20: (1) a GET /api/tasks of user u without status lists every stored task u
\* created, each with the set of its stored assignees and of its stored labels, the
\* empty set for a task created with none; (2) once a DELETE of a task by its
\* creator was answered success, a GET /api/tasks/:id for that id is answered 404.
C20_ListedThenGone ==
  [][ \A r \in ReqIds :
        /\ ( ListsNow(r) /\ ~Truthy(reqs[r].params, "status") )
           => \A t \in DOMAIN tasks :
                tasks[t].creator_id = reqs[r].user.user_id
                => \E x \in reqs'[r].res.data.tasks :
                     /\ x.task = tasks[t]
                     /\ x.assignees = {a.user_id : a \in
                          {y \in Rows(task_assignees) : y.task_id = t}}
                     /\ x.labels = {l.label_id : l \in
                          {y \in Rows(task_labels) : y.task_id = t}}
        /\ ( /\ reqs[r].kind = "get_task" /\ reqs[r].pc = "select"
             /\ reqs'[r] # reqs[r]
             /\ \E d \in ReqIds :
                  /\ reqs[d].kind = "delete_task" /\ reqs[d].res.status = 200
                  /\ reqs[d].params.task_id = reqs[r].params.task_id )
           => reqs'[r].res.status = 404 ]_vars

\* A task was created without assignees and labels, and the creator's GET /api/tasks
\* listed it with assignees {} and labels {}.
C20_Witness ==
  \E r, s \in ReqIds :
    /\ reqs[r].kind = "post_task" /\ reqs[r].res.status = 201
    /\ ~Has(reqs[r].body, "assignees") /\ ~Has(reqs[r].body, "labels")
    /\ reqs[s].kind = "get_tasks" /\ Done(s)
    /\ reqs[s].user.user_id = reqs[r].user.user_id
    /\ \E x \in reqs[s].res.data.tasks :
         /\ x.task.task_id = reqs[r].res.data.task.task_id
         /\ x.assignees = {} /\ x.labels = {}


(* --------------------- tasks: what create and update store ------------- *)

\* Bodies of PUT /api/tasks/:task_id: no field, an empty title, one field, two
\* fields one of them null, a priority outside low, medium, high.
UpdateBodies ==
  { Empty, [title |-> ""], [status |-> "completed"],
    [title |-> "Renamed", due_date |-> Null], [priority |-> "urgent"] }

NextUpdates ==
  \/ \E r \in ReqIds, body \in UpdateBodies : PutTaskArrive(r, AsUser("user3"), "task3", body)
  \/ \E r \in ReqIds : PutTaskSelect(r)
  \/ \E r \in ReqIds : PutTaskUpdate(r)
  \/ \E r \in ReqIds : PutTaskEmit(r)
  \/ \E r \in ReqIds, body \in {PostTaskBody, [title |-> "Odd", priority |-> "urgent"]} :
       PostTaskArrive(r, AsUser("user3"), body)
  \/ \E r \in ReqIds : PostTaskInsertTask(r)
  \/ \E r \in ReqIds : PostTaskInsertSubtask(r)
  \/ \E r \in ReqIds : PostTaskInsertAssignee(r)
  \/ \E r \in ReqIds : PostTaskInsertLabel(r)
  \/ \E r \in ReqIds : PostTaskEmit(r)
  \/ Tick

SpecUpdates == Init /\ [][NextUpdates]_vars

(* ================== the claims: what is stored of a task =============== *)

\* The fields of a task a PUT may supply.
Updatable == {"title", "description", "due_date", "priority", "status", "project_id"}

\* C17: the UPDATE of a PUT /api/tasks/:id that goes on to its success answer sets
\* each field the body supplies to the supplied value, leaves the other fields of
\* the task (task_id, creator_id and created_at among them) as stored, and sets
\* updated_at to the time the request took between its arrival and now, also when
\* the body supplies no field.
C17_SparseUpdate ==
  [][ \A r \in ReqIds :
        ( reqs[r].kind = "put_task" /\ reqs[r].pc = "update" /\ reqs'[r].pc = "emit" )
        => LET id == reqs[r].params.task_id
               body == reqs[r].body IN
           /\ id \in DOMAIN tasks /\ id \in DOMAIN tasks'
           /\ \A f \in Updatable :
                tasks'[id][f] = IF Has(body, f) THEN body[f] ELSE tasks[id][f]
           /\ \A f \in {"task_id", "creator_id", "created_at"} :
                tasks'[id][f] = tasks[id][f]
           /\ tasks'[id].updated_at >= reqs[r].at
           /\ tasks'[id].updated_at <= now ]_vars

\* C18: every stored task has created_at <= updated_at, and no step lowers the
\* updated_at of a stored task, however updates of the task overlap.
C18_TimestampsMonotonic ==
  [][ \A t \in DOMAIN tasks' :
        /\ tasks'[t].created_at <= tasks'[t].updated_at
        /\ t \in DOMAIN tasks => tasks'[t].updated_at >= tasks[t].updated_at ]_vars

\* C19: every stored task has its priority in low, medium, high and its status in
\* pending, in_progress, completed.
C19_EnumsKept ==
  \A t \in DOMAIN tasks :
    /\ tasks[t].priority \in {"low", "medium", "high"}
    /\ tasks[t].status \in {"pending", "in_progress", "completed"}


(* ================== the claims: registration, once more ================ *)

\* C21: a registration arriving without a non-empty name, email or password is
\* answered 400 at once and no users row is written; a registration answered 201
\* has inserted exactly one users row, with the request's name and email and the
\* role 'user' whatever the body carries, has left every other row as it was, and
\* returns a valid token whose claims are that row's user_id, email, name and role.
C21_RegisterContract ==
  [][ \A r \in ReqIds :
        /\ ( Idle(r) /\ reqs'[r].kind = "register" /\ ~ValidRegistration(reqs'[r]) )
           => /\ reqs'[r].pc = "done"
              /\ reqs'[r].res.status = 400
              /\ reqs'[r].queries = 0
              /\ users' = users
        /\ ( reqs[r].kind = "register" /\ ~Done(r) /\ reqs'[r].res.status = 201 )
           => \E id \in DOMAIN users' \ DOMAIN users :
                /\ DOMAIN users' = DOMAIN users \cup {id}
                /\ \A u \in DOMAIN users : users'[u] = users[u]
                /\ users'[id].user_role = "user"
                /\ users'[id].name = reqs[r].body.name
                /\ users'[id].email = reqs[r].body.email
                /\ JwtVerify(reqs'[r].res.data.token, now)
                /\ reqs'[r].res.data.token.claims =
                     Claims(id, users'[id].email, users'[id].name, users'[id].user_role)
                /\ reqs'[r].res.data.user = reqs'[r].res.data.token.claims ]_vars

\* A registration without an email was turned away and one asking for the role
\* admin was stored with the role user.
C21_Witness ==
  /\ \E r \in ReqIds :
       /\ reqs[r].kind = "register" /\ Done(r) /\ reqs[r].res.status = 400
       /\ ~Has(reqs[r].body, "email")
  /\ \E r \in ReqIds :
       /\ reqs[r].kind = "register" /\ Done(r) /\ reqs[r].res.status = 201
       /\ Has(reqs[r].body, "user_role") /\ reqs[r].body.user_role = "admin"
       /\ reqs[r].res.data.user.user_id \in DOMAIN users
       /\ users[reqs[r].res.data.user.user_id].user_role = "user"


(* ------------------ tasks: creation with failing children -------------- *)

\* Bodies of POST /api/tasks: one whose inserts all succeed, one whose second
\* assignee is no user, one whose second label is no label.
CreationBodies ==
  { PostTaskBody,
    [title |-> "Crew", subtasks |-> <<[title |-> "Step"]>>,
     assignees |-> <<"user2", NoSuchId>>, labels |-> <<"label1">>],
    [title |-> "Tags", subtasks |-> <<[title |-> "Step"]>>,
     labels |-> <<"label1", NoSuchId>>] }

\* Creations by user3. The id of a task is told to no client before its creation
\* has answered, so no other request touches the task while its children go in.
NextCreation ==
  \/ \E r \in ReqIds, body \in CreationBodies : PostTaskArrive(r, AsUser("user3"), body)
  \/ \E r \in ReqIds : PostTaskInsertTask(r)
  \/ \E r \in ReqIds : PostTaskInsertSubtask(r)
  \/ \E r \in ReqIds : PostTaskInsertAssignee(r)
  \/ \E r \in ReqIds : PostTaskInsertLabel(r)
  \/ \E r \in ReqIds : PostTaskEmit(r)

SpecCreation == Init /\ [][NextCreation]_vars

(* ================== the claims: partial creation ======================= *)

\* The creation in slot r is at one of its child inserts.
AtChildInsert(r) ==
  /\ reqs[r].kind = "post_task"
  /\ reqs[r].pc \in {"insert_subtask", "insert_assignee", "insert_label"}

\* C22: the step in which a child insert of POST /api/tasks fails removes and adds
\* no row of any table (the task row and the child rows inserted before stay as
\* they are), ends the request with 500 before any further insert, publishes
\* nothing, and the request has published nothing before.
C22_NoRollback ==
  [][ \A r \in ReqIds :
        ( AtChildInsert(r) /\ reqs'[r].pc # reqs[r].pc /\ reqs'[r].pc = "done" )
        => /\ reqs'[r].res = InternalError
           /\ tables' = tables
           /\ emitted' = emitted
           /\ EmittedBy(r) = {} ]_vars

\* A creation ended 500 at its second assignee: its task row, its subtask and its
\* first assignee are stored, no label of it is, and no event of it was published.
C22_Witness ==
  \E r \in ReqIds :
    /\ reqs[r].kind = "post_task" /\ Done(r) /\ reqs[r].res = InternalError
    /\ Len(Default(reqs[r].body, "assignees", <<>>)) = 2
    /\ reqs[r].loc.task_id \in DOMAIN tasks
    /\ \E s \in Rows(subtasks) : s.task_id = reqs[r].loc.task_id
    /\ \E a \in Rows(task_assignees) :
         a.task_id = reqs[r].loc.task_id /\ a.user_id = "user2"
    /\ ~\E l \in Rows(task_labels) : l.task_id = reqs[r].loc.task_id
    /\ EmittedBy(r) = {}


(* ------------------- tasks: overlapping updates ------------------------ *)

\* Two bodies of PUT /api/tasks/:task_id that both supply status, with different
\* values.
OverlapBodies ==
  { [status |-> "completed"], [status |-> "in_progress", title |-> "Renamed"] }

\* Updates of task3 by user3, its creator, while time passes.
NextOverlap ==
  \/ \E r \in ReqIds, body \in OverlapBodies :
       PutTaskArrive(r, AsUser("user3"), "task3", body)
  \/ \E r \in ReqIds : PutTaskSelect(r)
  \/ \E r \in ReqIds : PutTaskUpdate(r)
  \/ \E r \in ReqIds : PutTaskEmit(r)
  \/ Tick

SpecOverlap == Init /\ [][NextOverlap]_vars

(* ================== the claims: overlapping updates ==================== *)

\* The request in slot r runs its UPDATE in this step.
UpdatesNow(r) ==
  reqs[r].kind = "put_task" /\ reqs[r].pc = "update" /\ reqs'[r].pc # "update"

\* C23: every PUT /api/tasks/:id of the creator ends 200 whatever other PUT of the
\* task overlaps it; the UPDATE of a request stores each of status and title that
\* its body supplies, whatever is stored; and status and title change in no other
\* step, so the value stored in the end for a field two requests supply is that of
\* the UPDATE applied last and the other is lost.
C23_LastWriteWins ==
  [][ /\ \A r \in ReqIds :
           ( reqs[r].kind = "put_task" /\ ~Done(r) /\ reqs'[r].pc = "done" )
           => reqs'[r].res.status = 200
      /\ \A r \in ReqIds : UpdatesNow(r) =>
           \A f \in {"status", "title"} :
             Truthy(reqs[r].body, f) => tasks'["task3"][f] = reqs[r].body[f]
      /\ \A f \in {"status", "title"} :
           tasks'["task3"][f] # tasks["task3"][f]
           => \E r \in ReqIds : UpdatesNow(r) /\ Truthy(reqs[r].body, f) ]_vars

\* Two updates that overlapped both ended 200; the title of the one is stored with
\* the status of the other, whose UPDATE came last: a status was lost.
C23_Witness ==
  \E a, b \in ReqIds :
    /\ reqs[a].kind = "put_task" /\ Done(a) /\ reqs[a].res.status = 200
    /\ reqs[b].kind = "put_task" /\ Done(b) /\ reqs[b].res.status = 200
    /\ reqs[a].body = [status |-> "completed"]
    /\ reqs[b].body = [status |-> "in_progress", title |-> "Renamed"]
    /\ reqs[a].loc.found = reqs[b].loc.found
    /\ tasks["task3"].status = "completed" /\ tasks["task3"].title = "Renamed"


(* ----------------------------- the dashboard --------------------------- *)

\* Tasks user3 has created with POST /api/tasks before the requests of interest:
\* two share a due date, one shares the due date of the seeded task3, one has none.
MadeTasks ==
  LET made(id, due, st) ==
        [task_id |-> id, title |-> id, description |-> Null, due_date |-> due,
         priority |-> "medium", status |-> st, creator_id |-> "user3",
         project_id |-> Null, created_at |-> SeedTime, updated_at |-> SeedTime] IN
  [ made1 |-> made("made1", "2023-10-12", "pending"),
    made2 |-> made("made2", "2023-10-15", "completed"),
    made3 |-> made("made3", "2023-10-15", "in_progress"),
    made4 |-> made("made4", "2023-10-18", "pending"),
    made5 |-> made("made5", "2023-10-20", "completed"),
    made6 |-> made("made6", Null, "pending") ]

\* The seeded store with any of MadeTasks added.
InitDashboard ==
  /\ users = SeedUsers
  /\ projects = SeedProjects
  /\ \E S \in SUBSET DOMAIN MadeTasks :
       tasks = [t \in DOMAIN SeedTasks \cup S |->
                  IF t \in S THEN MadeTasks[t] ELSE SeedTasks[t]]
  /\ subtasks = SeedSubtasks
  /\ task_comments = SeedComments
  /\ task_assignees = SeedAssignees
  /\ task_labels = SeedTaskLabels
  /\ notifications = SeedNotifications
  /\ reqs = [r \in ReqIds |-> IdleReq]
  /\ sockets = [c \in ConnIds |-> IdleSocket]
  /\ emitted = <<>>
  /\ now = 1
  /\ store = InitStore
  /\ client = InitClient

\* Dashboards of user3 and user1, while user3 completes task3 or drops its due date.
NextDashboard ==
  \/ \E r \in ReqIds, u \in {"user1", "user3"} : GetDashboardArrive(r, AsUser(u))
  \/ \E r \in ReqIds : GetDashboardStats(r)
  \/ \E r \in ReqIds : GetDashboardDeadlines(r)
  \/ \E r \in ReqIds, body \in {[status |-> "completed"], [due_date |-> Null]} :
       PutTaskArrive(r, AsUser("user3"), "task3", body)
  \/ \E r \in ReqIds : PutTaskSelect(r)
  \/ \E r \in ReqIds : PutTaskUpdate(r)
  \/ \E r \in ReqIds : PutTaskEmit(r)

SpecDashboard == InitDashboard /\ [][NextDashboard]_vars

(* ================== the claims: the dashboard ========================== *)

\* The tasks u created.
CreatedBy(u) == {t \in DOMAIN tasks : tasks[t].creator_id = u}

\* The number of tasks of u in status st.
InStatus(u, st) == Cardinality({t \in CreatedBy(u) : tasks[t].status = st})

\* The tasks u created that have a due date.
Due(u) == {t \in CreatedBy(u) : tasks[t].due_date # Null}

SeedRowsKept(seed, t, id) ==
  \A k \in DOMAIN seed : seed[k].task_id = id => k \in DOMAIN t /\ t[k] = seed[k]

\* C25: once a DELETE /api/tasks/:id has ended 500, the subtasks, comments,
\* assignee links and label links the task had before it are stored as they were
\* (no request but a DELETE removes such rows, so those of the seed stand for
\* them), and the request has published no event.
C25_FailedDeleteKeepsRows ==
  \A r \in ReqIds :
    ( reqs[r].kind = "delete_task" /\ Done(r) /\ reqs[r].res = InternalError )
    => LET id == reqs[r].params.task_id IN
       /\ SeedRowsKept(SeedSubtasks, subtasks, id)
       /\ SeedRowsKept(SeedComments, task_comments, id)
       /\ SeedRowsKept(SeedAssignees, task_assignees, id)
       /\ SeedRowsKept(SeedTaskLabels, task_labels, id)
       /\ EmittedBy(r) = {}


(* -------------------- connections that outlive their token ------------- *)

\* Connections of user2, opened at the start with a token signed then, disconnects,
\* comments of user3 on task3, and the passing of time.
NextSessions ==
  \/ \E c \in ConnIds : now = 1 /\ Handshake(c, <<TokenOf("user2", now)>>, <<>>)
  \/ \E c \in ConnIds : Disconnect(c)
  \/ \E r \in ReqIds, body \in CommentBodies :
       PostCommentArrive(r, AsUser("user3"), "task3", body)
  \/ \E r \in ReqIds : PostCommentInsert(r)
  \/ \E r \in ReqIds : PostCommentEmit(r)
  \/ Tick

SpecSessions == Init /\ [][NextSessions]_vars

(* ================== the claims: connections and expiry ================= *)

\* The token connection c presented is no longer valid.
TokenElapsed(c) == ~JwtVerify(HandshakeToken(sockets[c].auth, sockets[c].query)[1], now)

\* C26: a registered connection leaves the registry only by disconnecting, and in
\* every step in which an event is published each registered connection observes
\* it, whether or not the token it presented at the handshake is still valid.
C26_CheckedOnceAtHandshake ==
  [][ \A c \in ConnIds : sockets[c].state = "connected" =>
        /\ sockets'[c].state \in {"connected", "disconnected"}
        /\ sockets'[c].state = "disconnected" => reqs' = reqs /\ now' = now
        /\ emitted' # emitted =>
             sockets'[c].observed = Append(sockets[c].observed, emitted'[Len(emitted')]) ]_vars

\* A connection whose token has elapsed is registered and has observed the event
\* of a request that arrived after the expiry.
C26_Witness ==
  \E c \in ConnIds, r \in ReqIds :
    /\ sockets[c].state = "connected" /\ TokenElapsed(c)
    /\ reqs[r].kind = "post_comment" /\ Done(r) /\ reqs[r].res.status = 201
    /\ reqs[r].at >= HandshakeToken(sockets[c].auth, sockets[c].query)[1].exp
    /\ \E i \in 1..Len(sockets[c].observed) : sockets[c].observed[i].by = r


(* ------------------- comments on tasks that are not there -------------- *)

\* Comments of user3 on task3 and on a task id that was never created, and the
\* deletion of task3 by user3, its creator.
NextComments ==
  \/ \E r \in ReqIds, id \in {"task3", NoSuchId}, body \in CommentBodies :
       PostCommentArrive(r, AsUser("user3"), id, body)
  \/ \E r \in ReqIds : PostCommentInsert(r)
  \/ \E r \in ReqIds : PostCommentEmit(r)
  \/ \E r \in ReqIds : DeleteTaskArrive(r, AsUser("user3"), "task3")
  \/ \E r \in ReqIds : DeleteTaskSelect(r)
  \/ \E r \in ReqIds : DeleteTaskSubtasks(r)
  \/ \E r \in ReqIds : DeleteTaskComments(r)
  \/ \E r \in ReqIds : DeleteTaskAssignees(r)
  \/ \E r \in ReqIds : DeleteTaskLabels(r)
  \/ \E r \in ReqIds : DeleteTaskRow(r)
  \/ \E r \in ReqIds : DeleteTaskEmit(r)

SpecComments == Init /\ [][NextComments]_vars

(* ================== the claims: comments and their task ================ *)

\* C27: the INSERT of a POST /api/tasks/:id/comments whose task id names no stored
\* task stores no row, ends the request with 500 and publishes nothing, and after
\* every step every stored comment names a stored task.
C27_NoOrphanComment ==
  [][ /\ \A r \in ReqIds :
           ( /\ reqs[r].kind = "post_comment" /\ reqs[r].pc = "insert"
             /\ reqs'[r] # reqs[r] /\ reqs[r].params.task_id \notin DOMAIN tasks )
           => /\ task_comments' = task_comments
              /\ emitted' = emitted
              /\ reqs'[r].pc = "done" /\ reqs'[r].res = InternalError
      /\ \A c \in DOMAIN task_comments' : task_comments'[c].task_id \in DOMAIN tasks' ]_vars

\* task3 was deleted, and a comment on it that arrived while it was stored ended
\* 500 at its INSERT, having stored and published nothing.
C27_Witness ==
  \E r, d \in ReqIds :
    /\ reqs[d].kind = "delete_task" /\ Done(d) /\ reqs[d].res.status = 200
    /\ reqs[r].kind = "post_comment" /\ Done(r) /\ reqs[r].res = InternalError
    /\ reqs[r].params.task_id = "task3" /\ "task3" \notin DOMAIN tasks
    /\ reqs[r].queries = 1
    /\ reqs[r].loc.comment_id \notin DOMAIN task_comments
    /\ EmittedBy(r) = {}


(* ================== the claims: the email of a profile ================= *)

\* The profile update in slot r runs its UPDATE in this step, asking for an email
\* that another stored user holds.
TakesHeldEmail(r) ==
  /\ reqs[r].kind = "put_profile" /\ reqs[r].pc = "update" /\ reqs'[r] # reqs[r]
  /\ reqs[r].user.user_id \in DOMAIN users
  /\ HoldersOf(reqs[r].body.email) \ {reqs[r].user.user_id} # {}

\* C28: after every step no two stored users share an email, and the UPDATE of a
\* PUT /api/users/profile asking for an email another user holds changes no users
\* row (so the caller keeps name, email, profile_picture and updated_at) and ends
\* the request with an error answer.
C28_ProfileEmailUnique ==
  [][ /\ \A u, v \in DOMAIN users' : users'[u].email = users'[v].email => u = v
      /\ \A r \in ReqIds : TakesHeldEmail(r) =>
           /\ users' = users
           /\ reqs'[r].pc = "done"
           /\ reqs'[r].res.status >= 400 ]_vars

\* user2 asked for the email of user1 and was answered 500; user2 is stored as
\* seeded and user1 still holds the email.
C28_Witness ==
  \E r \in ReqIds :
    /\ reqs[r].kind = "put_profile" /\ Done(r) /\ reqs[r].res = InternalError
    /\ reqs[r].user.user_id = "user2"
    /\ reqs[r].body.email = "alice@example.com"
    /\ users["user2"] = SeedUsers["user2"]
    /\ users["user1"].email = "alice@example.com"


(* --------------------------- the client store -------------------------- *)

\* An unread and a read notification.
Notifications ==
  { [notification_id |-> "n1", message |-> "You were assigned", is_read |-> FALSE],
    [notification_id |-> "n2", message |-> "Task completed", is_read |-> TRUE] }

\* Lists GET /api/notifications may have answered with.
NotificationLists ==
  { <<[notification_id |-> "n1", message |-> "You were assigned", is_read |-> FALSE]>>,
    <<[notification_id |-> "n1", message |-> "You were assigned", is_read |-> FALSE],
      [notification_id |-> "n2", message |-> "Task completed", is_read |-> TRUE]>> }

\* The tokens of two logins.
ClientTokens == {"tokenA", "tokenB"}

\* Logins and logouts, App's effect, the sockets' connects and disconnects, and
\* notification_created events from the server.
NextClientRealtime ==
  \/ \E token \in ClientTokens : set_auth(token)
  \/ clear_auth
  \/ AppEffect
  \/ \E k \in 1..MaxSockets : SocketConnect(k)
  \/ \E k \in 1..MaxSockets : SocketDisconnect(k)
  \/ \E n \in Notifications : notification_created(n)

SpecClientRealtime == Init /\ [][NextClientRealtime]_vars

\* All of the above and the notification actions of the store.
NextStore ==
  \/ \E n \in Notifications : add_notification(n)
  \/ \E list \in NotificationLists : set_notifications(list)
  \/ clear_notifications
  \/ increment_unread_count(1)
  \/ reset_unread_count
  \/ \E token \in ClientTokens : set_auth(token)
  \/ clear_auth
  \/ AppEffect
  \/ \E k \in 1..MaxSockets : SocketConnect(k)
  \/ \E k \in 1..MaxSockets : SocketDisconnect(k)
  \/ \E n \in Notifications : notification_created(n)

SpecStore == Init /\ [][NextStore]_vars

(* ================== the claims: the client store ======================= *)

\* C29: in every state of the store, unread_count is the number of entries of the
\* notifications list whose is_read is false.
C29_UnreadCountMatches ==
  store.notification_state.unread_count =
    Cardinality({i \in 1..Len(store.notification_state.notifications) :
                   ~store.notification_state.notifications[i].is_read})

\* C30: a notification_created event (the only step of this specification that
\* changes the notifications list) adds exactly one entry to the list and at most
\* one to unread_count, however often init_realtime has run, and subscribed_events
\* never holds an event name twice.
C30_OneEntryPerEvent ==
  [][ /\ store'.notification_state.notifications # store.notification_state.notifications
           => /\ Len(store'.notification_state.notifications)
                   = Len(store.notification_state.notifications) + 1
              /\ store'.notification_state.unread_count
                   <= store.notification_state.unread_count + 1
      /\ \A i, j \in 1..Len(store'.realtime_state.subscribed_events) :
           store'.realtime_state.subscribed_events[i]
             = store'.realtime_state.subscribed_events[j] => i = j ]_vars

=============================================================================
